---- MODULE Spec2Model ----
(***************************************************************************)
(* Linkly: short-code resolution, cache-aside consistency and link         *)
(* lifecycle.  The model follows the request handlers of                   *)
(* backend/app/main.py and backend/app/routes_links.py and the store       *)
(* functions of backend/app/crud.py; the physical delete is the handler of *)
(* app/routes_links.py with app/crud.py.                                   *)
(*                                                                         *)
(* Every request runs in its own slot (its own SQLAlchemy session and      *)
(* Redis connection).  A handler is cut into steps at its I/O calls: one   *)
(* step per cache command and one per store statement/transaction, since   *)
(* other requests (other threads of the thread pool, other worker          *)
(* processes) can run between two I/O calls of a handler and nowhere else. *)
(* A COMMIT and the refresh SELECT that directly follows it on the same    *)
(* connection are one step.                                                *)
(*                                                                         *)
(* The store is the set of committed rows of url_mappings; rows written by *)
(* a transaction that has not committed live in the request's slot only    *)
(* (READ COMMITTED: no dirty reads).                                       *)
(***************************************************************************)
EXTENDS Integers, Sequences, FiniteSets, TLC

\* ---------------------------------------------------------------- bounds
MaxProcs == 2
MaxId == 2
MaxOwners == 2
MaxVisits == 3
\* encode_base62 is applied to the numbers -MaxNeg .. MaxNum.
MaxNum == 130
MaxNeg == 2
\* The TTL of a cache entry runs down in MaxTicks steps.
MaxTicks == 2

\* ------------------------------------------------------ program constants
DEFAULT_CACHE_TTL_SECONDS == 3600

ACTIVE == "Active"
INACTIVE == "Inactive"
LinkStatus == {ACTIVE, INACTIVE}

BASE62_CHARS ==
  << "0", "1", "2", "3", "4", "5", "6", "7", "8", "9",
     "a", "b", "c", "d", "e", "f", "g", "h", "i", "j", "k", "l", "m",
     "n", "o", "p", "q", "r", "s", "t", "u", "v", "w", "x", "y", "z",
     "A", "B", "C", "D", "E", "F", "G", "H", "I", "J", "K", "L", "M",
     "N", "O", "P", "Q", "R", "S", "T", "U", "V", "W", "X", "Y", "Z" >>
BASE == Len(BASE62_CHARS)

\* Mutation: a remainder of 0 adds no symbol.
RECURSIVE encode_loop_skips_zero(_, _)
encode_loop_skips_zero(num, encoded) ==
  IF num > 0
    THEN encode_loop_skips_zero(num \div BASE,
           IF num % BASE = 0 THEN encoded
           ELSE <<BASE62_CHARS[(num % BASE) + 1]>> \o encoded)
    ELSE encoded

\* Mutation: the symbol is appended, not prepended.
RECURSIVE encode_loop_appends(_, _)
encode_loop_appends(num, encoded) ==
  IF num > 0
    THEN encode_loop_appends(num \div BASE,
                             encoded \o <<BASE62_CHARS[(num % BASE) + 1]>>)
    ELSE encoded

\* The while loop of encode_base62: divmod, then prepend the symbol.
RECURSIVE encode_loop(_, _)
encode_loop(num, encoded) ==
  IF num > 0
    THEN encode_loop(num \div BASE, <<BASE62_CHARS[(num % BASE) + 1]>> \o encoded)
    ELSE encoded

\* Mutation: no check for 0 and none for a negative number: only the loop.
encode_base62_loop_only(num) == [raises |-> FALSE, val |-> encode_loop(num, <<>>)]

\* encode_base62(num): raises |-> TRUE stands for the ValueError on a
\* negative number; otherwise val is the string, a sequence of symbols.
encode_base62(num) ==
  IF num = 0 THEN [raises |-> FALSE, val |-> <<BASE62_CHARS[1]>>]
  ELSE IF num < 0 THEN [raises |-> TRUE, val |-> <<>>]
  ELSE [raises |-> FALSE, val |-> encode_loop(num, <<>>)]

\* ------------------------------------------------------------ input sets
Nums == (0 - MaxNeg)..MaxNum
Procs == 1..MaxProcs
Owners == 1..MaxOwners
Ids == 1..MaxId
Urls == {"https://a.example/x", "https://b.example/y"}
\* The short codes requests ask for: the codes of the ids the store can assign.
Codes == {encode_base62(i).val : i \in Ids}

\* An optional value (None, NULL, no response yet) is the empty set; a
\* present value x is {x}.
None == {}
Some(x) == {x}
The(s) == CHOOSE x \in s : TRUE

VARIABLES
  store,        \* committed rows of url_mappings
  nextId,       \* the next value of the id sequence of url_mappings
  cache,        \* Redis: entries [key, url, status, ttl]
  slot,         \* slot[p]: the request running in slot p; its fields
                \* afterDeact, cache_err and store_err are history: what
                \* the request has met so far
  pre,          \* history: Some([store, cache]) as they were when the only
                \* running request started; None once requests overlap
  incs,         \* history: incs[i] = number of increment_visit_count calls on
                \* row i that committed
  scen,         \* history: progress through the create/resolve/toggle scenario
  calls         \* two calls of encode_base62: calls.num[k] is the argument
                \* of call k, calls.encoded[k] its outcome once it returned

vars == <<store, nextId, cache, slot, pre, incs, scen, calls>>

\* Two calls of encode_base62 that have not run yet.
TwoCalls(n1, n2) == [num |-> <<n1, n2>>, encoded |-> <<None, None>>]

\* ------------------------------------------------------------------ rows
\* models.URLMapping: short_code is nullable, status defaults to ACTIVE,
\* visit_count to 0.
URLMapping(id, original_url, owner_id) ==
  [id |-> id, short_code |-> None, original_url |-> original_url,
   visit_count |-> 0, status |-> ACTIVE, owner_id |-> owner_id]

\* crud.get_url_by_short_code: the committed row with that short code, or None.
get_url_by_short_code(short_code) ==
  LET found == {r \in store : r.short_code = Some(short_code)}
  IN IF found = {} THEN None ELSE Some(The(found))

\* The same query on the rows as they were at an earlier moment.
RowsOf(rows, short_code) == {r \in rows : r.short_code = Some(short_code)}

\* app/crud.get_link_by_id
get_link_by_id(link_id) ==
  LET found == {r \in store : r.id = link_id}
  IN IF found = {} THEN None ELSE Some(The(found))

\* Mutation: the increment writes back the whole row as it was loaded.
IncrementWriteWholeRow(db_url) ==
  {IF r.id = db_url.id THEN [db_url EXCEPT !.visit_count = @ + 1] ELSE r
     : r \in store}

\* UPDATE url_mappings SET visit_count = <loaded value + 1> WHERE id = ...
\* The new value is computed in Python from the attribute the session loaded.
IncrementWrite(db_url) ==
  {IF r.id = db_url.id THEN [r EXCEPT !.visit_count = db_url.visit_count + 1] ELSE r
     : r \in store}

\* Mutation: the status update writes back the whole row as it was loaded.
StatusWriteWholeRow(db_url, new_status) ==
  {IF r.id = db_url.id THEN [db_url EXCEPT !.status = new_status] ELSE r
     : r \in store}

\* UPDATE url_mappings SET status = ... WHERE id = ...; the unit of work emits
\* it only when the new value differs from the loaded one.
StatusWrite(db_url, new_status) ==
  IF new_status = db_url.status THEN store
  ELSE {IF r.id = db_url.id THEN [r EXCEPT !.status = new_status] ELSE r : r \in store}

\* ----------------------------------------------------------------- cache
\* Mutation: every short code shares one cache key.
build_cache_key_shared(short_code) == <<"linkly:short_code:">>

build_cache_key(short_code) == <<"linkly:short_code:">> \o short_code

CacheGet(key) ==
  LET found == {e \in cache : e.key = key}
  IN IF found = {} THEN None ELSE Some(The(found))

\* A cache value is the string stored under the key.  payload says what
\* json.loads makes of it: "object" a JSON object, whose "url" and "status"
\* members are the fields url and status ("" when the member is missing or
\* empty); "scalar" JSON that is no object (a number, a string, a list,
\* null); "garbage" no JSON at all.
CacheValue(key, payload, url, status) ==
  [key |-> key, payload |-> payload, url |-> url, status |-> status,
   ttl |-> DEFAULT_CACHE_TTL_SECONDS]

\* cache.set(key, json.dumps({"url": url, "status": status}), ex=TTL)
CacheSet(key, url, status) ==
  {e \in cache : e.key # key} \cup {CacheValue(key, "object", url, status)}

\* What the cache-hit block of the resolve makes of a value it has read:
\*   "corrupt"  json.loads raises JSONDecodeError, or LinkStatus(status_str)
\*              raises ValueError for an unknown token: the except block
\*              treats it as a miss and deletes the key;
\*   "crash"    cached_data.get raises AttributeError on what is no dict;
\*              no except clause of the handler catches it;
\*   "invalid"  url or status missing: treated as a miss, the key stays;
\*   "inactive", "active"  a well-formed entry.
DecodeCached(e) ==
  IF e.payload = "garbage" THEN "corrupt"
  ELSE IF e.payload = "scalar" THEN "crash"
  ELSE IF e.status # "" /\ e.status \notin LinkStatus THEN "corrupt"
  ELSE IF e.url = "" \/ e.status = "" THEN "invalid"
  ELSE IF e.status = INACTIVE THEN "inactive"
  ELSE "active"

\* cache.delete(key)
CacheDelete(key) == {e \in cache : e.key # key}

\* ------------------------------------------------------------- responses
\* What the transport returns: the HTTP status code, the detail text of an
\* error or the Location of a redirect, and the record in the body, if any.
Response(status_code, detail, body) ==
  [status_code |-> status_code, detail |-> detail, body |-> body]

\* urljoin(FRONTEND_BASE_URL, f"/inactive?code={short_code}")
inactive_redirect_url(short_code) == <<"/inactive?code=">> \o short_code

\* ----------------------------------------------------------------- slots
IdleSlot ==
  [op |-> "idle", pc |-> "idle", short_code |-> <<>>, link_id |-> 0, user |-> 0,
   arg |-> "", db_url |-> None, original_url |-> None, resp |-> None,
   afterDeact |-> FALSE, cache_err |-> FALSE, store_err |-> FALSE]

AllIdle == \A q \in Procs : slot[q].op = "idle"

\* A started request runs alone iff every slot is idle when it starts; a
\* request that starts beside another one ends the other's being alone.
PreAtStart == IF AllIdle THEN Some([store |-> store, cache |-> cache]) ELSE None

\* The scenario create; resolve; resolve; deactivate; resolve; reactivate;
\* resolve, on the first link and with no request overlapping another:
\* scen = k when its k-th request has started, -1 once the run has left it.
ScenMatches(k, op, short_code, arg) ==
  LET onLink == Cardinality(store) = 1 /\ The(store).short_code = Some(short_code)
  IN \/ k = 1 /\ op = "shorten" /\ store = {}
     \/ k \in {2, 3, 5, 7} /\ op = "redirect" /\ onLink
     \/ k = 4 /\ op = "patch_main" /\ onLink /\ arg = INACTIVE
     \/ k = 6 /\ op = "patch_main" /\ onLink /\ arg = ACTIVE

ScenAtStart(op, short_code, arg) ==
  IF scen >= 0 /\ AllIdle /\ ScenMatches(scen + 1, op, short_code, arg)
    THEN scen + 1 ELSE -1

\* What a committed status update on short_code does to the history flag of
\* the other requests: a resolve no longer runs after an unrevoked
\* deactivation once the row is Active again.
AfterStatusCommit(q, short_code, now_active) ==
  IF slot[q].short_code = short_code
    THEN [slot[q] EXCEPT !.afterDeact = slot[q].afterDeact /\ ~now_active]
    ELSE slot[q]

\* The row of short_code is Inactive and no status update of it is between
\* its commit and its answer: the deactivation has returned.
Deactivated(short_code) ==
  /\ \E r \in get_url_by_short_code(short_code) : r.status = INACTIVE
  /\ \A q \in Procs : ~(slot[q].short_code = short_code /\ slot[q].pc = "cache_del")

Init ==
  /\ store = {}
  /\ nextId = 1
  /\ cache = {}
  /\ slot = [p \in Procs |-> IdleSlot]
  /\ pre = None
  /\ incs = [i \in Ids |-> 0]
  /\ scen = 0
  /\ calls = TwoCalls(0, 0)

\* A handler's first step is its first I/O call: the request starts there.
\* Begun(op) is the slot of a request that has just arrived.
Begun(op) == [IdleSlot EXCEPT !.op = op]

\* Slots are interchangeable: a request takes the lowest free one.
Free(p) == slot[p].op = "idle" /\ \A q \in Procs : q < p => slot[q].op # "idle"

\* The handler has answered: its locals are gone, the response stays until
\* it is delivered.
Answered(s, resp) ==
  [s EXCEPT !.pc = "done", !.db_url = None, !.original_url = None, !.resp = Some(resp)]

\* ------------------------------------------------- create (POST shorten)
\* Mutation: the flush commits, so the row without short code is visible.
CreateFlushAutocommit(p) ==
  /\ Free(p)
  /\ nextId <= MaxId
  /\ nextId' = nextId + 1
  /\ \E u \in Urls, o \in Owners :
       /\ slot' = [slot EXCEPT ![p] =
                     [Begun("shorten") EXCEPT !.pc = "commit",
                                              !.db_url = Some(URLMapping(nextId, u, o))]]
       /\ store' = store \cup {URLMapping(nextId, u, o)}
  /\ pre' = PreAtStart
  /\ scen' = ScenAtStart("shorten", <<>>, "")
  /\ UNCHANGED <<calls, cache, incs>>

\* Mutation: the id is read from the sequence without advancing it.
CreateFlushSameId(p) ==
  /\ Free(p)
  /\ nextId <= MaxId
  /\ nextId' = nextId
  /\ \E u \in Urls, o \in Owners :
       slot' = [slot EXCEPT ![p] =
                  [Begun("shorten") EXCEPT !.pc = "commit",
                                           !.db_url = Some(URLMapping(nextId, u, o))]]
  /\ pre' = PreAtStart
  /\ scen' = ScenAtStart("shorten", <<>>, "")
  /\ UNCHANGED <<calls, store, cache, incs>>

\* crud.create_short_url(db, url, owner_id), first part: db.add; db.flush();
\* db.refresh().  The INSERT draws the id from the sequence; the row stays
\* inside the open transaction.
CreateFlush(p) ==
  /\ Free(p)
  /\ nextId <= MaxId
  /\ nextId' = nextId + 1
  /\ \E u \in Urls, o \in Owners :
       slot' = [slot EXCEPT ![p] =
                  [Begun("shorten") EXCEPT !.pc = "commit",
                                           !.db_url = Some(URLMapping(nextId, u, o))]]
  /\ pre' = PreAtStart
  /\ scen' = ScenAtStart("shorten", <<>>, "")
  /\ UNCHANGED <<calls, store, cache, incs>>

\* short_code = encode_base62(id); db.commit(): INSERT and UPDATE become
\* visible together.
CreateCommit(p) ==
  /\ slot[p].op = "shorten" /\ slot[p].pc = "commit"
  /\ LET row == The(slot[p].db_url)
         enc == encode_base62(row.id)
         done == [row EXCEPT !.short_code = Some(enc.val)]
     IN /\ ~enc.raises
        /\ store' = store \cup {done}
        /\ slot' = [slot EXCEPT ![p].pc = "seed", ![p].db_url = Some(done),
                                ![p].short_code = enc.val]
  /\ UNCHANGED <<calls, nextId, cache, pre, incs, scen>>

\* shorten_url_endpoint after crud.create_short_url returned: seed the cache
\* and answer 201 with the record.
CreateSeed(p) ==
  /\ slot[p].op = "shorten" /\ slot[p].pc = "seed"
  /\ LET row == The(slot[p].db_url)
     IN /\ cache' = CacheSet(build_cache_key(The(row.short_code)),
                             row.original_url, row.status)
        /\ slot' = [slot EXCEPT ![p] = Answered(@, Response(201, <<>>, Some(row)))]
  /\ UNCHANGED <<calls, store, nextId, pre, incs, scen>>

Shorten(p) ==
  \/ CreateFlush(p)
  \/ CreateCommit(p)
  \/ CreateSeed(p)

\* POST /api/shorten of main.py as it is written: the handler calls
\* crud.create_short_url(db=db, url=url_request) without the owner_id the
\* function requires.  The call raises TypeError before any statement
\* reaches the store; `except Exception` turns it into the 500.
ShortenEndpoint(p) ==
  /\ Free(p)
  /\ slot' = [slot EXCEPT ![p] =
                Answered(Begun("shorten_endpoint"),
                         Response(500,
                           <<"Could not create short URL due to a database error.">>,
                           None))]
  /\ pre' = PreAtStart
  /\ scen' = -1
  /\ UNCHANGED <<calls, store, nextId, cache, incs>>

\* The response has been delivered; the slot is free for the next request.
Return(p) ==
  /\ slot[p].pc = "done"
  /\ slot' = [slot EXCEPT ![p] = IdleSlot]
  /\ pre' = None
  /\ UNCHANGED <<calls, store, nextId, cache, incs, scen>>

\* A cache entry reaches the end of its TTL and Redis drops it.
CacheExpire ==
  /\ \E e \in cache : cache' = cache \ {e}
  /\ UNCHANGED <<calls, store, nextId, slot, pre, incs, scen>>

\* Time passes: every entry has TtlStep seconds less to live, and Redis
\* drops the entries whose time is up.  A key set with ex=TTL expires TTL
\* seconds after that set, whatever is read from it in between.
TtlStep == DEFAULT_CACHE_TTL_SECONDS \div MaxTicks
Tick ==
  /\ cache # {}
  /\ cache' = {[e EXCEPT !.ttl = @ - TtlStep] : e \in {x \in cache : x.ttl > TtlStep}}
  /\ UNCHANGED <<calls, store, nextId, slot, pre, incs, scen>>

\* Redis is a server of its own: a client other than these handlers (the
\* setup of a test, an operator, another release of the service) sets a key
\* to a value of any shape.
ForeignUrl == "https://a.example/x"
ForeignValues ==
  {<<"object", u, s>> : u \in {"", ForeignUrl}, s \in LinkStatus \cup {"", "Pending"}}
    \cup {<<"scalar", "", "">>, <<"garbage", "", "">>}

CachePut ==
  /\ \E c \in Codes, v \in ForeignValues :
       cache' = {e \in cache : e.key # build_cache_key(c)}
                  \cup {CacheValue(build_cache_key(c), v[1], v[2], v[3])}
  /\ UNCHANGED <<calls, store, nextId, slot, pre, incs, scen>>

\* --------------------------------------------- resolve (GET /{short_code})
\* The number of committed increments, over all rows.
RECURSIVE SumIncs(_)
SumIncs(S) == IF S = {} THEN 0 ELSE LET i == The(S) IN incs[i] + SumIncs(S \ {i})
TotalIncs == SumIncs(Ids)

\* Requests in flight that may still add a visit.
Resolving == {q \in Procs : slot[q].op = "redirect" /\ slot[q].pc # "done"}

\* Mutation: an Inactive entry is not trusted; the database is asked.
RedirectCacheGetChecksStore(p) ==
  /\ Free(p)
  /\ TotalIncs + Cardinality(Resolving) < MaxVisits
  /\ \E c \in Codes :
       LET req == [Begun("redirect") EXCEPT
                     !.short_code = c,
                     !.afterDeact = Deactivated(c)]
           cached == CacheGet(build_cache_key(c))
           read == IF cached = None THEN "miss" ELSE DecodeCached(The(cached))
       IN /\ slot' = [slot EXCEPT ![p] =
                IF read \in {"miss", "invalid", "inactive"}
                  THEN [req EXCEPT !.pc = "db_lookup"]
                ELSE IF read = "corrupt"
                  THEN [req EXCEPT !.pc = "cache_drop"]
                ELSE IF read = "crash"
                  THEN Answered(req, Response(500, <<"Internal Server Error">>, None))
                ELSE [req EXCEPT !.pc = "inc_fetch",
                                 !.original_url = Some(The(cached).url)]]
          /\ scen' = ScenAtStart("redirect", c, "")
  /\ pre' = PreAtStart
  /\ UNCHANGED <<calls, store, nextId, cache, incs>>

\* 1. Check Cache: an Inactive entry answers at once, an Active entry gives
\* the URL, no entry sends the request to the database.
RedirectCacheGet(p) ==
  /\ Free(p)
  /\ TotalIncs + Cardinality(Resolving) < MaxVisits
  /\ \E c \in Codes :
       LET req == [Begun("redirect") EXCEPT
                     !.short_code = c,
                     !.afterDeact = Deactivated(c)]
           cached == CacheGet(build_cache_key(c))
           read == IF cached = None THEN "miss" ELSE DecodeCached(The(cached))
       IN /\ slot' = [slot EXCEPT ![p] =
                IF read \in {"miss", "invalid"}
                  THEN [req EXCEPT !.pc = "db_lookup"]
                ELSE IF read = "corrupt"
                  THEN [req EXCEPT !.pc = "cache_drop"]
                ELSE IF read = "crash"
                  THEN Answered(req, Response(500, <<"Internal Server Error">>, None))
                ELSE IF read = "inactive"
                  THEN Answered(req, Response(302, inactive_redirect_url(c), None))
                ELSE [req EXCEPT !.pc = "inc_fetch",
                                 !.original_url = Some(The(cached).url)]]
          /\ scen' = ScenAtStart("redirect", c, "")
  /\ pre' = PreAtStart
  /\ UNCHANGED <<calls, store, nextId, cache, incs>>

\* The except block of the cache-hit block: cache.delete(cache_key) of the
\* value that did not decode, then on to the database.
RedirectCacheDrop(p) ==
  /\ slot[p].op = "redirect" /\ slot[p].pc = "cache_drop"
  /\ cache' = CacheDelete(build_cache_key(slot[p].short_code))
  /\ slot' = [slot EXCEPT ![p].pc = "db_lookup"]
  /\ UNCHANGED <<calls, store, nextId, pre, incs, scen>>

\* Mutation: a code without a row is remembered in the cache as Inactive.
RedirectDbLookupCachesMiss(p) ==
  /\ slot[p].op = "redirect" /\ slot[p].pc = "db_lookup"
  /\ LET db_url == get_url_by_short_code(slot[p].short_code)
     IN /\ slot' = [slot EXCEPT ![p] =
               IF db_url = None
                 THEN Answered(@, Response(404, <<"Short URL not found">>, None))
               ELSE IF The(db_url).status = INACTIVE
                 THEN Answered(@, Response(302, inactive_redirect_url(slot[p].short_code), None))
               ELSE [@ EXCEPT !.pc = "cache_set", !.db_url = db_url,
                              !.original_url = Some(The(db_url).original_url)]]
        /\ cache' = IF db_url = None
                      THEN CacheSet(build_cache_key(slot[p].short_code), "", INACTIVE)
                      ELSE cache
  /\ UNCHANGED <<calls, store, nextId, pre, incs, scen>>

\* Mutation: the visit is counted at the lookup, before the status check.
RedirectDbLookupCountsFirst(p) ==
  /\ slot[p].op = "redirect" /\ slot[p].pc = "db_lookup"
  /\ LET db_url == get_url_by_short_code(slot[p].short_code)
     IN /\ slot' = [slot EXCEPT ![p] =
             IF db_url = None
               THEN Answered(@, Response(404, <<"Short URL not found">>, None))
             ELSE IF The(db_url).status = INACTIVE
               THEN Answered(@, Response(302, inactive_redirect_url(slot[p].short_code), None))
             ELSE [@ EXCEPT !.pc = "cache_set", !.db_url = db_url,
                            !.original_url = Some(The(db_url).original_url)]]
        /\ store' = IF db_url = None THEN store ELSE IncrementWrite(The(db_url))
  /\ UNCHANGED <<calls, nextId, cache, pre, incs, scen>>

\* 2./3. Cache miss: look the code up in the database; 404 when there is no
\* row, the inactive page when the row is Inactive.
RedirectDbLookup(p) ==
  /\ slot[p].op = "redirect" /\ slot[p].pc = "db_lookup"
  /\ LET db_url == get_url_by_short_code(slot[p].short_code)
     IN slot' = [slot EXCEPT ![p] =
          IF db_url = None
            THEN Answered(@, Response(404, <<"Short URL not found">>, None))
          ELSE IF The(db_url).status = INACTIVE
            THEN Answered(@, Response(302, inactive_redirect_url(slot[p].short_code), None))
          ELSE [@ EXCEPT !.pc = "cache_set", !.db_url = db_url,
                         !.original_url = Some(The(db_url).original_url)]]
  /\ UNCHANGED <<calls, store, nextId, cache, pre, incs, scen>>

\* Mutation: the DB hit is not written to the cache.
RedirectCacheSetSkipped(p) ==
  /\ slot[p].op = "redirect" /\ slot[p].pc = "cache_set"
  /\ slot' = [slot EXCEPT ![p].pc = "inc"]
  /\ UNCHANGED <<calls, store, nextId, cache, pre, incs, scen>>

\* 4. Update Cache after DB hit (only if active).
RedirectCacheSet(p) ==
  /\ slot[p].op = "redirect" /\ slot[p].pc = "cache_set"
  /\ cache' = CacheSet(build_cache_key(slot[p].short_code),
                       The(slot[p].original_url), The(slot[p].db_url).status)
  /\ slot' = [slot EXCEPT ![p].pc = "inc"]
  /\ UNCHANGED <<calls, store, nextId, pre, incs, scen>>

\* Mutation: after a cache hit no row is fetched, so nothing is counted.
RedirectIncFetchNoRow(p) ==
  /\ slot[p].op = "redirect" /\ slot[p].pc = "inc_fetch"
  /\ slot' = [slot EXCEPT ![p].pc = "inc", ![p].db_url = None]
  /\ UNCHANGED <<calls, store, nextId, cache, pre, incs, scen>>

\* Mutation: a cache hit sets the entry again, with a fresh TTL.
RedirectIncFetchRefreshesEntry(p) ==
  /\ slot[p].op = "redirect" /\ slot[p].pc = "inc_fetch"
  /\ slot' = [slot EXCEPT ![p].pc = "inc",
                          ![p].db_url = get_url_by_short_code(slot[p].short_code)]
  /\ cache' = CacheSet(build_cache_key(slot[p].short_code),
                       The(slot[p].original_url), ACTIVE)
  /\ UNCHANGED <<calls, store, nextId, pre, incs, scen>>

\* 5. after a cache hit: fetch the row the increment will work on.
RedirectIncFetch(p) ==
  /\ slot[p].op = "redirect" /\ slot[p].pc = "inc_fetch"
  /\ slot' = [slot EXCEPT ![p].pc = "inc",
                          ![p].db_url = get_url_by_short_code(slot[p].short_code)]
  /\ UNCHANGED <<calls, store, nextId, cache, pre, incs, scen>>

\* crud.increment_visit_count on the loaded row: visit_count += 1; commit.
\* An UPDATE that matches no row (the row was deleted) raises, and the
\* handler only logs it.
increment_visit_count(db_url) ==
  IF \E r \in store : r.id = db_url.id
    THEN [committed |-> TRUE, store |-> IncrementWrite(db_url)]
    ELSE [committed |-> FALSE, store |-> store]

\* Mutation: the increment waits while a status update holds the row loaded.
RedirectIncrementWaits(p) ==
  /\ slot[p].op = "redirect" /\ slot[p].pc = "inc"
  /\ \A q \in Procs \ {p} : ~(slot[q].op = "patch_main" /\ slot[q].pc = "commit")
  /\ LET db_url == slot[p].db_url
         counts == db_url # None /\ The(db_url).status = ACTIVE
         inc == IF counts THEN increment_visit_count(The(db_url))
                ELSE [committed |-> FALSE, store |-> store]
     IN /\ store' = inc.store
        /\ incs' = IF inc.committed
                     THEN [incs EXCEPT ![The(db_url).id] = @ + 1] ELSE incs
  /\ slot' = [slot EXCEPT ![p] =
                Answered(@, Response(307, <<The(slot[p].original_url)>>, None))]
  /\ UNCHANGED <<calls, nextId, cache, pre, scen>>

\* 5./6. Increment the count when the loaded row is Active, then redirect.
RedirectIncrement(p) ==
  /\ slot[p].op = "redirect" /\ slot[p].pc = "inc"
  /\ LET db_url == slot[p].db_url
         counts == db_url # None /\ The(db_url).status = ACTIVE
         inc == IF counts THEN increment_visit_count(The(db_url))
                ELSE [committed |-> FALSE, store |-> store]
     IN /\ store' = inc.store
        /\ incs' = IF inc.committed
                     THEN [incs EXCEPT ![The(db_url).id] = @ + 1] ELSE incs
  /\ slot' = [slot EXCEPT ![p] =
                Answered(@, Response(307, <<The(slot[p].original_url)>>, None))]
  /\ UNCHANGED <<calls, nextId, cache, pre, scen>>

Redirect(p) ==
  \/ RedirectCacheGet(p)
  \/ RedirectCacheDrop(p)
  \/ RedirectDbLookup(p)
  \/ RedirectCacheSet(p)
  \/ RedirectIncFetch(p)
  \/ RedirectIncrement(p)

\* ------------------------------------------------------ status updates
\* crud.update_url_status on the loaded row: status = new_status; commit;
\* refresh.  When the row is gone the UPDATE (or, when no UPDATE is due, the
\* refresh) raises, and the function raises ValueError.
update_url_status(db_url, new_status) ==
  IF \E r \in store : r.id = db_url.id
    THEN LET written == StatusWrite(db_url, new_status)
         IN [raises |-> FALSE, store |-> written,
             db_url |-> {r \in written : r.id = db_url.id}]
    ELSE [raises |-> TRUE, store |-> store, db_url |-> None]

\* The commit step shared by the handlers that call update_url_status: on
\* success the handler goes on as `next` says, on ValueError it answers 500.
\* next = "cache_del": go on to the cache delete; 200: answer with the
\* refreshed record; 204: answer without content.
StatusCommit(p, new_status, next) ==
  LET res == update_url_status(The(slot[p].db_url), new_status)
      code == slot[p].short_code
  IN IF res.raises
       THEN /\ slot' = [slot EXCEPT ![p] =
                          Answered(@, Response(500, <<"Could not update status">>, None))]
            /\ store' = store
       ELSE /\ store' = res.store
            /\ slot' = [q \in Procs |->
                 IF q # p
                   THEN AfterStatusCommit(q, code, The(res.db_url).status = ACTIVE)
                 ELSE IF next = "cache_del"
                   THEN [slot[p] EXCEPT !.pc = "cache_del", !.db_url = res.db_url]
                 ELSE IF next = "200"
                   THEN Answered(slot[p], Response(200, <<>>, res.db_url))
                 ELSE Answered(slot[p], Response(204, <<>>, None))]

\* Mutation: a status update to the status the row already has is refused.
PatchMainFetchRejectsSame(p) ==
  /\ Free(p)
  /\ \E c \in Codes, s \in LinkStatus :
       LET req == [Begun("patch_main") EXCEPT !.short_code = c, !.arg = s]
           db_url == get_url_by_short_code(c)
       IN /\ slot' = [slot EXCEPT ![p] =
                IF db_url = None
                  THEN Answered(req, Response(404, <<"Short code not found">>, None))
                ELSE IF The(db_url).status = s
                  THEN Answered(req, Response(409, <<"Status already set">>, None))
                  ELSE [req EXCEPT !.pc = "commit", !.db_url = db_url]]
          /\ scen' = ScenAtStart("patch_main", c, s)
  /\ pre' = PreAtStart
  /\ UNCHANGED <<calls, store, nextId, cache, incs>>

\* PATCH /api/links/{short_code}/status of main.py.  The handler takes no
\* identity: user 0 is a caller the handler knows nothing about.
PatchMainFetch(p) ==
  /\ Free(p)
  /\ \E c \in Codes, s \in LinkStatus :
       LET req == [Begun("patch_main") EXCEPT !.short_code = c, !.arg = s]
           db_url == get_url_by_short_code(c)
       IN /\ slot' = [slot EXCEPT ![p] =
                IF db_url = None
                  THEN Answered(req, Response(404, <<"Short code not found">>, None))
                  ELSE [req EXCEPT !.pc = "commit", !.db_url = db_url]]
          /\ scen' = ScenAtStart("patch_main", c, s)
  /\ pre' = PreAtStart
  /\ UNCHANGED <<calls, store, nextId, cache, incs>>

PatchMainCommit(p) ==
  /\ slot[p].op = "patch_main" /\ slot[p].pc = "commit"
  /\ StatusCommit(p, slot[p].arg, "cache_del")
  /\ UNCHANGED <<calls, nextId, cache, pre, incs, scen>>

\* Mutation: the status update answers without deleting the cache entry.
PatchMainNoCacheDel(p) ==
  /\ slot[p].op = "patch_main" /\ slot[p].pc = "cache_del"
  /\ slot' = [slot EXCEPT ![p] = Answered(@, Response(200, <<>>, slot[p].db_url))]
  /\ UNCHANGED <<calls, store, nextId, cache, pre, incs, scen>>

\* cache.delete(cache_key), then the 200 with the refreshed record.
PatchMainCacheDel(p) ==
  /\ slot[p].op = "patch_main" /\ slot[p].pc = "cache_del"
  /\ cache' = CacheDelete(build_cache_key(slot[p].short_code))
  /\ slot' = [slot EXCEPT ![p] = Answered(@, Response(200, <<>>, slot[p].db_url))]
  /\ UNCHANGED <<calls, store, nextId, pre, incs, scen>>

PatchMain(p) ==
  \/ PatchMainFetch(p)
  \/ PatchMainCommit(p)
  \/ PatchMainCacheDel(p)

\* PATCH /api/links/{short_code}/status of routes_links.py, for the
\* authenticated user.  Its cache invalidation is commented out.
PatchRouteFetch(p) ==
  /\ Free(p)
  /\ \E c \in Codes, s \in LinkStatus, u \in Owners :
       LET req == [Begun("patch_route") EXCEPT !.short_code = c, !.arg = s, !.user = u]
           db_url == get_url_by_short_code(c)
       IN /\ slot' = [slot EXCEPT ![p] =
                IF db_url = None
                  THEN Answered(req, Response(404, <<"Short code not found">>, None))
                ELSE IF The(db_url).owner_id # u
                  THEN Answered(req, Response(404,
                          <<"Short code not found or permission denied">>, None))
                ELSE [req EXCEPT !.pc = "commit", !.db_url = db_url]]
          /\ scen' = ScenAtStart("patch_route", c, s)
  /\ pre' = PreAtStart
  /\ UNCHANGED <<calls, store, nextId, cache, incs>>

PatchRouteCommit(p) ==
  /\ slot[p].op = "patch_route" /\ slot[p].pc = "commit"
  /\ StatusCommit(p, slot[p].arg, "200")
  /\ UNCHANGED <<calls, nextId, cache, pre, incs, scen>>

PatchRoute(p) ==
  \/ PatchRouteFetch(p)
  \/ PatchRouteCommit(p)

\* Mutation: the soft delete does not compare the owner with the caller.
SoftDeleteFetchAnyone(p) ==
  /\ Free(p)
  /\ \E c \in Codes, u \in Owners :
       LET req == [Begun("soft_delete") EXCEPT !.short_code = c, !.user = u]
           link_to_delete == get_url_by_short_code(c)
       IN /\ slot' = [slot EXCEPT ![p] =
                IF link_to_delete = None
                  THEN Answered(req, Response(404, <<"Link not found">>, None))
                ELSE IF The(link_to_delete).status = INACTIVE
                  THEN Answered(req, Response(204, <<>>, None))
                ELSE [req EXCEPT !.pc = "commit", !.db_url = link_to_delete]]
          /\ scen' = ScenAtStart("soft_delete", c, "")
  /\ pre' = PreAtStart
  /\ UNCHANGED <<calls, store, nextId, cache, incs>>

\* DELETE /api/links/{short_code} of routes_links.py: the soft delete.
SoftDeleteFetch(p) ==
  /\ Free(p)
  /\ \E c \in Codes, u \in Owners :
       LET req == [Begun("soft_delete") EXCEPT !.short_code = c, !.user = u]
           link_to_delete == get_url_by_short_code(c)
       IN /\ slot' = [slot EXCEPT ![p] =
                IF link_to_delete = None
                  THEN Answered(req, Response(404, <<"Link not found">>, None))
                ELSE IF The(link_to_delete).owner_id # u
                  THEN Answered(req, Response(404,
                          <<"Link not found or permission denied">>, None))
                ELSE IF The(link_to_delete).status = INACTIVE
                  THEN Answered(req, Response(204, <<>>, None))
                ELSE [req EXCEPT !.pc = "commit", !.db_url = link_to_delete]]
          /\ scen' = ScenAtStart("soft_delete", c, "")
  /\ pre' = PreAtStart
  /\ UNCHANGED <<calls, store, nextId, cache, incs>>

SoftDeleteCommit(p) ==
  /\ slot[p].op = "soft_delete" /\ slot[p].pc = "commit"
  /\ StatusCommit(p, INACTIVE, "204")
  /\ UNCHANGED <<calls, nextId, cache, pre, incs, scen>>

SoftDelete(p) ==
  \/ SoftDeleteFetch(p)
  \/ SoftDeleteCommit(p)

\* -------------------------------- physical delete (app/routes_links.py)
\* DELETE /api/links/{link_id} of app/routes_links.py: the row is looked up
\* by id; a missing row and a row of another owner both answer 404.
DeleteLinkFetch(p) ==
  /\ Free(p)
  /\ \E i \in Ids, u \in Owners :
       LET req == [Begun("delete_link") EXCEPT !.link_id = i, !.user = u]
           link == get_link_by_id(i)
       IN slot' = [slot EXCEPT ![p] =
            IF link = None \/ (\E r \in link : r.owner_id # u)
              THEN Answered(req, Response(404, <<"Link not found">>, None))
              ELSE [req EXCEPT !.pc = "commit", !.db_url = link]]
  /\ scen' = -1
  /\ pre' = PreAtStart
  /\ UNCHANGED <<calls, store, nextId, cache, incs>>

\* app/crud.delete_link: db.delete(link); db.commit().  The row leaves the
\* table; the cache is not touched.
delete_link(link) == {r \in store : r.id # link.id}

DeleteLinkCommit(p) ==
  /\ slot[p].op = "delete_link" /\ slot[p].pc = "commit"
  /\ store' = delete_link(The(slot[p].db_url))
  /\ slot' = [slot EXCEPT ![p] = Answered(@, Response(204, <<>>, None))]
  /\ UNCHANGED <<calls, nextId, cache, pre, incs, scen>>

DeleteLink(p) ==
  \/ DeleteLinkFetch(p)
  \/ DeleteLinkCommit(p)

\* ------------------------------------------------------- store failures
\* The INSERT of db.flush() fails: rollback, ValueError, 500.  The sequence
\* may or may not have handed out an id before the failure.
CreateFlushFail(p) ==
  /\ Free(p)
  /\ nextId <= MaxId
  /\ \E burnt \in {0, 1} : nextId' = nextId + burnt
  /\ slot' = [slot EXCEPT ![p] =
                Answered(Begun("shorten"),
                         Response(500, <<"Internal error during shortening">>, None))]
  /\ pre' = PreAtStart
  /\ scen' = -1
  /\ UNCHANGED <<calls, store, cache, incs>>

\* Mutation: after the failed commit nothing is rolled back: the inserted
\* row, still without short code, stays in the table.
CreateCommitFailKeepsRow(p) ==
  /\ slot[p].op = "shorten" /\ slot[p].pc = "commit"
  /\ store' = store \cup slot[p].db_url
  /\ slot' = [slot EXCEPT ![p] =
                Answered(@, Response(500, <<"Internal error during shortening">>, None))]
  /\ UNCHANGED <<calls, nextId, cache, pre, incs, scen>>

\* db.commit() fails: rollback; the inserted row never becomes visible.
CreateCommitFail(p) ==
  /\ slot[p].op = "shorten" /\ slot[p].pc = "commit"
  /\ slot' = [slot EXCEPT ![p] =
                Answered(@, Response(500, <<"Internal error during shortening">>, None))]
  /\ UNCHANGED <<calls, store, nextId, cache, pre, incs, scen>>

CreateFails(p) ==
  \/ CreateFlushFail(p)
  \/ CreateCommitFail(p)

\* ------------------------------------------------------- cache failures
\* A Redis command raises redis.RedisError: the handler logs it and goes on.
\* cache_err records that the request has met such a failure.

\* Mutation: a failing cache.get is answered with a 500.
RedirectCacheGetFailSurfaces(p) ==
  /\ Free(p)
  /\ TotalIncs + Cardinality(Resolving) < MaxVisits
  /\ \E c \in Codes :
       slot' = [slot EXCEPT ![p] =
                  Answered([Begun("redirect") EXCEPT !.short_code = c,
                                                     !.cache_err = TRUE],
                           Response(500, <<"Cache unavailable">>, None))]
  /\ scen' = -1
  /\ pre' = PreAtStart
  /\ UNCHANGED <<calls, store, nextId, cache, incs>>

\* 1. cache.get raises: original_url stays None, the request goes to the
\* database as after a miss.
RedirectCacheGetFail(p) ==
  /\ Free(p)
  /\ TotalIncs + Cardinality(Resolving) < MaxVisits
  /\ \E c \in Codes :
       slot' = [slot EXCEPT ![p] =
                  [Begun("redirect") EXCEPT !.short_code = c,
                                            !.afterDeact = Deactivated(c),
                                            !.pc = "db_lookup",
                                            !.cache_err = TRUE]]
  /\ scen' = -1
  /\ pre' = PreAtStart
  /\ UNCHANGED <<calls, store, nextId, cache, incs>>

\* 4. cache.set after the DB hit raises: nothing is cached.
RedirectCacheSetFail(p) ==
  /\ slot[p].op = "redirect" /\ slot[p].pc = "cache_set"
  /\ slot' = [slot EXCEPT ![p].pc = "inc", ![p].cache_err = TRUE]
  /\ UNCHANGED <<calls, store, nextId, cache, pre, incs, scen>>

\* cache.delete after the status update raises: the entry stays, the 200 with
\* the refreshed record is returned all the same.
PatchMainCacheDelFail(p) ==
  /\ slot[p].op = "patch_main" /\ slot[p].pc = "cache_del"
  /\ slot' = [slot EXCEPT ![p] =
                Answered([@ EXCEPT !.cache_err = TRUE],
                         Response(200, <<>>, slot[p].db_url))]
  /\ UNCHANGED <<calls, store, nextId, cache, pre, incs, scen>>

\* Mutation: a failing seed undoes the create and answers 500.
CreateSeedFailRollsBack(p) ==
  /\ slot[p].op = "shorten" /\ slot[p].pc = "seed"
  /\ store' = store \ slot[p].db_url
  /\ slot' = [slot EXCEPT ![p] =
                Answered([@ EXCEPT !.cache_err = TRUE],
                         Response(500, <<"Could not cache the new link">>, None))]
  /\ UNCHANGED <<calls, nextId, cache, pre, incs, scen>>

\* cache.set of the seed raises: the 201 with the record is returned all the
\* same; the row was committed by crud.create_short_url before.
CreateSeedFail(p) ==
  /\ slot[p].op = "shorten" /\ slot[p].pc = "seed"
  /\ slot' = [slot EXCEPT ![p] =
                Answered([@ EXCEPT !.cache_err = TRUE],
                         Response(201, <<>>, slot[p].db_url))]
  /\ UNCHANGED <<calls, store, nextId, cache, pre, incs, scen>>

\* ------------------------------------------ store failure of the lookup
\* Mutation: a failing lookup is taken for a missing row.
RedirectDbLookupFailAsMiss(p) ==
  /\ slot[p].op = "redirect" /\ slot[p].pc = "db_lookup"
  /\ slot' = [slot EXCEPT ![p] =
                Answered([@ EXCEPT !.store_err = TRUE],
                         Response(404, <<"Short URL not found">>, None))]
  /\ UNCHANGED <<calls, store, nextId, cache, pre, incs, scen>>

\* 2. after a cache miss, crud.get_url_by_short_code raises: the handler
\* answers 500, with one of two details depending on the exception's text.
RedirectDbLookupFail(p) ==
  /\ slot[p].op = "redirect" /\ slot[p].pc = "db_lookup"
  /\ \E detail \in {"Database table setup incomplete.",
                    "Error retrieving redirect info."} :
       slot' = [slot EXCEPT ![p] =
                  Answered([@ EXCEPT !.store_err = TRUE],
                           Response(500, <<detail>>, None))]
  /\ UNCHANGED <<calls, store, nextId, cache, pre, incs, scen>>

\* -------------------------------------- store failures of the increment
\* 5. after a cache hit, the fetch of the row raises: the handler logs it,
\* db_url_for_increment stays None and the increment is skipped.
RedirectIncFetchFail(p) ==
  /\ slot[p].op = "redirect" /\ slot[p].pc = "inc_fetch"
  /\ slot' = [slot EXCEPT ![p].pc = "inc", ![p].db_url = None,
                          ![p].store_err = TRUE]
  /\ UNCHANGED <<calls, store, nextId, cache, pre, incs, scen>>

\* Mutation: a failing increment is answered with a 500.
RedirectIncrementFailSurfaces(p) ==
  /\ slot[p].op = "redirect" /\ slot[p].pc = "inc"
  /\ slot[p].db_url # None /\ The(slot[p].db_url).status = ACTIVE
  /\ slot' = [slot EXCEPT ![p] =
                Answered([@ EXCEPT !.store_err = TRUE],
                         Response(500, <<"Failed to increment visit count">>, None))]
  /\ UNCHANGED <<calls, store, nextId, cache, pre, incs, scen>>

\* crud.increment_visit_count raises.  Its try block holds db.commit() and
\* db.refresh(db_url): when the commit fails the UPDATE is rolled back, when
\* the refresh after a successful commit fails the UPDATE stays committed
\* (`applied`).  Either way the function raises ValueError and the handler
\* only logs it; the redirect is returned.
RedirectIncrementFail(p) ==
  /\ slot[p].op = "redirect" /\ slot[p].pc = "inc"
  /\ slot[p].db_url # None /\ The(slot[p].db_url).status = ACTIVE
  /\ \E applied \in BOOLEAN :
       LET inc == IF applied THEN increment_visit_count(The(slot[p].db_url))
                  ELSE [committed |-> FALSE, store |-> store]
       IN /\ store' = inc.store
          /\ incs' = IF inc.committed
                       THEN [incs EXCEPT ![The(slot[p].db_url).id] = @ + 1] ELSE incs
  /\ slot' = [slot EXCEPT ![p] =
                Answered([@ EXCEPT !.store_err = TRUE],
                         Response(307, <<The(slot[p].original_url)>>, None))]
  /\ UNCHANGED <<calls, nextId, cache, pre, scen>>

\* ---------------------------------------------------- encode_base62 alone
\* Call k of encode_base62 runs on its argument and returns or raises.
Encode(k) ==
  /\ calls.encoded[k] = None
  /\ calls' = [calls EXCEPT !.encoded[k] = Some(encode_base62(calls.num[k]))]
  /\ UNCHANGED <<store, nextId, cache, slot, pre, incs, scen>>

\* -------------------------- store failure of the status update's lookup
\* crud.get_url_by_short_code raises in update_link_status_endpoint: the
\* handler answers 500, with one of two details depending on the
\* exception's text.
PatchMainFetchFail(p) ==
  /\ Free(p)
  /\ \E c \in Codes, s \in LinkStatus,
        detail \in {"Database table setup incomplete. Please check logs.",
                    "Error retrieving link for update."} :
       /\ slot' = [slot EXCEPT ![p] =
            Answered([Begun("patch_main") EXCEPT !.short_code = c, !.arg = s,
                                                 !.store_err = TRUE],
                     Response(500, <<detail>>, None))]
       /\ scen' = -1
  /\ pre' = PreAtStart
  /\ UNCHANGED <<calls, store, nextId, cache, incs>>

\* ------------------------------------ store failure of the status update
\* crud.update_url_status raises.  Its try block holds db.commit() and
\* db.refresh(db_url): when the commit fails the UPDATE is rolled back, when
\* the refresh after a successful commit fails the UPDATE stays committed
\* (`applied`).  Either way the function raises ValueError and the handler
\* answers 500 at once: the cache.delete that follows is not reached.
PatchMainCommitFail(p) ==
  /\ slot[p].op = "patch_main" /\ slot[p].pc = "commit"
  /\ \E applied \in BOOLEAN :
       LET res == update_url_status(The(slot[p].db_url), slot[p].arg)
           written == applied /\ ~res.raises
       IN /\ store' = IF written THEN res.store ELSE store
          /\ slot' = [q \in Procs |->
               IF q # p
                 THEN IF written
                        THEN AfterStatusCommit(q, slot[p].short_code,
                                               slot[p].arg = ACTIVE)
                        ELSE slot[q]
                 ELSE Answered([slot[p] EXCEPT !.store_err = TRUE],
                               Response(500, <<"Could not update status">>, None))]
  /\ UNCHANGED <<calls, nextId, cache, pre, incs, scen>>

\* --------------------------------------------------------- specifications
\* The handlers of main.py.
NextMain ==
  \/ \E p \in Procs : Shorten(p) \/ Redirect(p) \/ PatchMain(p) \/ Return(p)
  \/ CacheExpire

\* With the handlers of routes_links.py and of app/routes_links.py.
Next ==
  \/ NextMain
  \/ \E p \in Procs : PatchRoute(p) \/ SoftDelete(p) \/ DeleteLink(p)
  \/ \E p \in Procs : ShortenEndpoint(p)

Spec == Init /\ [][Next]_vars

\* Requests one at a time: a request starts only when no other is in flight.
OneAtATime ==
  (\E q \in Procs : slot[q].op = "idle" /\ slot'[q].op # "idle") => AllIdle

\* Only the first link: one id is drawn, and every request names its code.
FirstCode == encode_base62(1).val
OneLink ==
  /\ nextId' <= 2
  /\ \A q \in Procs : slot'[q].short_code \in {<<>>, FirstCode}

\* Only the first link's key is in the cache.
FirstKeyOnly == \A e \in cache' : e.key = build_cache_key(FirstCode)

\* A create overlaps no other request.
CreateAlone ==
  \A q \in Procs :
    slot'[q].op = "shorten" => \A o \in Procs \ {q} : slot'[o].op = "idle"

\* Creates run beside anything; of the other requests, one at a time.
OneOther ==
  Cardinality({q \in Procs : slot'[q].op \notin {"idle", "shorten"}}) <= 1

\* Each restricted specification takes the steps of Next that also satisfy
\* its restriction.

\* All handlers, one request at a time.
NextSeq ==
  \/ \E p \in Procs : CreateFlush(p) /\ OneAtATime
  \/ \E p \in Procs : CreateCommit(p) /\ OneAtATime
  \/ \E p \in Procs : CreateSeed(p) /\ OneAtATime
  \/ \E p \in Procs : RedirectCacheGet(p) /\ OneAtATime
  \/ \E p \in Procs : RedirectDbLookup(p) /\ OneAtATime
  \/ \E p \in Procs : RedirectCacheSet(p) /\ OneAtATime
  \/ \E p \in Procs : RedirectIncFetch(p) /\ OneAtATime
  \/ \E p \in Procs : RedirectIncrement(p) /\ OneAtATime
  \/ \E p \in Procs : PatchMainFetch(p) /\ OneAtATime
  \/ \E p \in Procs : PatchMainCommit(p) /\ OneAtATime
  \/ \E p \in Procs : PatchMainCacheDel(p) /\ OneAtATime
  \/ \E p \in Procs : Return(p) /\ OneAtATime
  \/ \E p \in Procs : PatchRouteFetch(p) /\ OneAtATime
  \/ \E p \in Procs : PatchRouteCommit(p) /\ OneAtATime
  \/ \E p \in Procs : SoftDeleteFetch(p) /\ OneAtATime
  \/ \E p \in Procs : SoftDeleteCommit(p) /\ OneAtATime
  \/ \E p \in Procs : ShortenEndpoint(p) /\ OneAtATime
  \/ CacheExpire /\ OneAtATime

SpecSeq == Init /\ [][NextSeq]_vars

\* At most one resolve and at most one status request hold a slot.
OneOfEach ==
  /\ Cardinality({q \in Procs : slot'[q].op = "redirect"}) <= 1
  /\ Cardinality({q \in Procs : slot'[q].op \in
                    {"patch_main", "patch_route", "soft_delete"}}) <= 1

\* One resolve beside one status request, any interleaving, on the first
\* link.
NextRace ==
  \/ \E p \in Procs : CreateFlush(p) /\ OneLink /\ OneOfEach
  \/ \E p \in Procs : CreateCommit(p) /\ OneLink /\ OneOfEach
  \/ \E p \in Procs : CreateSeed(p) /\ OneLink /\ OneOfEach
  \/ \E p \in Procs : RedirectCacheGet(p) /\ OneLink /\ OneOfEach
  \/ \E p \in Procs : RedirectDbLookup(p) /\ OneLink /\ OneOfEach
  \/ \E p \in Procs : RedirectCacheSet(p) /\ OneLink /\ OneOfEach
  \/ \E p \in Procs : RedirectIncFetch(p) /\ OneLink /\ OneOfEach
  \/ \E p \in Procs : RedirectIncrement(p) /\ OneLink /\ OneOfEach
  \/ \E p \in Procs : PatchMainFetch(p) /\ OneLink /\ OneOfEach
  \/ \E p \in Procs : PatchMainCommit(p) /\ OneLink /\ OneOfEach
  \/ \E p \in Procs : PatchMainCacheDel(p) /\ OneLink /\ OneOfEach
  \/ \E p \in Procs : Return(p) /\ OneLink /\ OneOfEach
  \/ \E p \in Procs : PatchRouteFetch(p) /\ OneLink /\ OneOfEach
  \/ \E p \in Procs : PatchRouteCommit(p) /\ OneLink /\ OneOfEach
  \/ \E p \in Procs : SoftDeleteFetch(p) /\ OneLink /\ OneOfEach
  \/ \E p \in Procs : SoftDeleteCommit(p) /\ OneLink /\ OneOfEach
  \/ CacheExpire /\ OneLink /\ OneOfEach

SpecRace == Init /\ [][NextRace]_vars

\* All handlers, any interleaving, on the first link.
NextOneLink ==
  \/ \E p \in Procs : CreateFlush(p) /\ OneLink
  \/ \E p \in Procs : CreateCommit(p) /\ OneLink
  \/ \E p \in Procs : CreateSeed(p) /\ OneLink
  \/ \E p \in Procs : RedirectCacheGet(p) /\ OneLink
  \/ \E p \in Procs : RedirectDbLookup(p) /\ OneLink
  \/ \E p \in Procs : RedirectCacheSet(p) /\ OneLink
  \/ \E p \in Procs : RedirectIncFetch(p) /\ OneLink
  \/ \E p \in Procs : RedirectIncrement(p) /\ OneLink
  \/ \E p \in Procs : PatchMainFetch(p) /\ OneLink
  \/ \E p \in Procs : PatchMainCommit(p) /\ OneLink
  \/ \E p \in Procs : PatchMainCacheDel(p) /\ OneLink
  \/ \E p \in Procs : Return(p) /\ OneLink
  \/ \E p \in Procs : PatchRouteFetch(p) /\ OneLink
  \/ \E p \in Procs : PatchRouteCommit(p) /\ OneLink
  \/ \E p \in Procs : SoftDeleteFetch(p) /\ OneLink
  \/ \E p \in Procs : SoftDeleteCommit(p) /\ OneLink
  \/ CacheExpire /\ OneLink

SpecOneLink == Init /\ [][NextOneLink]_vars

\* The handlers of main.py on the first link: resolves and status updates in
\* any interleaving, once the create has returned.
NextMainOneLink ==
  \/ \E p \in Procs : CreateFlush(p) /\ OneLink /\ CreateAlone
  \/ \E p \in Procs : CreateCommit(p) /\ OneLink /\ CreateAlone
  \/ \E p \in Procs : CreateSeed(p) /\ OneLink /\ CreateAlone
  \/ \E p \in Procs : RedirectCacheGet(p) /\ OneLink /\ CreateAlone
  \/ \E p \in Procs : RedirectDbLookup(p) /\ OneLink /\ CreateAlone
  \/ \E p \in Procs : RedirectCacheSet(p) /\ OneLink /\ CreateAlone
  \/ \E p \in Procs : RedirectIncFetch(p) /\ OneLink /\ CreateAlone
  \/ \E p \in Procs : RedirectIncrement(p) /\ OneLink /\ CreateAlone
  \/ \E p \in Procs : PatchMainFetch(p) /\ OneLink /\ CreateAlone
  \/ \E p \in Procs : PatchMainCommit(p) /\ OneLink /\ CreateAlone
  \/ \E p \in Procs : PatchMainCacheDel(p) /\ OneLink /\ CreateAlone
  \/ \E p \in Procs : Return(p) /\ OneLink /\ CreateAlone
  \/ CacheExpire /\ OneLink /\ CreateAlone

SpecMain == Init /\ [][NextMainOneLink]_vars

\* Creates that may fail in the store, beside each other and beside one
\* other request of main.py.
NextCreate ==
  \/ \E p \in Procs : CreateFlush(p) /\ OneOther
  \/ \E p \in Procs : CreateCommit(p) /\ OneOther
  \/ \E p \in Procs : CreateSeed(p) /\ OneOther
  \/ \E p \in Procs : RedirectCacheGet(p) /\ OneOther
  \/ \E p \in Procs : RedirectDbLookup(p) /\ OneOther
  \/ \E p \in Procs : RedirectCacheSet(p) /\ OneOther
  \/ \E p \in Procs : RedirectIncFetch(p) /\ OneOther
  \/ \E p \in Procs : RedirectIncrement(p) /\ OneOther
  \/ \E p \in Procs : PatchMainFetch(p) /\ OneOther
  \/ \E p \in Procs : PatchMainCommit(p) /\ OneOther
  \/ \E p \in Procs : PatchMainCacheDel(p) /\ OneOther
  \/ \E p \in Procs : Return(p) /\ OneOther
  \/ \E p \in Procs : CreateFlushFail(p) /\ OneOther
  \/ \E p \in Procs : CreateCommitFail(p) /\ OneOther
  \/ CacheExpire /\ OneOther

SpecCreate == Init /\ [][NextCreate]_vars

\* Create, resolve and the two deletes (the soft delete of routes_links.py,
\* the physical delete of app/routes_links.py), one request at a time.  A
\* row is Inactive here only after its owner's soft delete answered 204.
NextDelete ==
  \/ \E p \in Procs : CreateFlush(p) /\ OneAtATime
  \/ \E p \in Procs : CreateCommit(p) /\ OneAtATime
  \/ \E p \in Procs : CreateSeed(p) /\ OneAtATime
  \/ \E p \in Procs : RedirectCacheGet(p) /\ OneAtATime
  \/ \E p \in Procs : RedirectDbLookup(p) /\ OneAtATime
  \/ \E p \in Procs : RedirectCacheSet(p) /\ OneAtATime
  \/ \E p \in Procs : RedirectIncFetch(p) /\ OneAtATime
  \/ \E p \in Procs : RedirectIncrement(p) /\ OneAtATime
  \/ \E p \in Procs : SoftDeleteFetch(p) /\ OneAtATime
  \/ \E p \in Procs : SoftDeleteCommit(p) /\ OneAtATime
  \/ \E p \in Procs : DeleteLinkFetch(p) /\ OneAtATime
  \/ \E p \in Procs : DeleteLinkCommit(p) /\ OneAtATime
  \/ \E p \in Procs : Return(p) /\ OneAtATime
  \/ CacheExpire /\ OneAtATime

SpecDelete == Init /\ [][NextDelete]_vars

\* The handlers of main.py with cache failures and failures of the store
\* during the visit increment and the status update, one request at a time.
NextFaults ==
  \/ \E p \in Procs : CreateFlush(p) /\ OneAtATime
  \/ \E p \in Procs : CreateCommit(p) /\ OneAtATime
  \/ \E p \in Procs : CreateSeed(p) /\ OneAtATime
  \/ \E p \in Procs : RedirectCacheGet(p) /\ OneAtATime
  \/ \E p \in Procs : RedirectDbLookup(p) /\ OneAtATime
  \/ \E p \in Procs : RedirectCacheSet(p) /\ OneAtATime
  \/ \E p \in Procs : RedirectIncFetch(p) /\ OneAtATime
  \/ \E p \in Procs : RedirectIncrement(p) /\ OneAtATime
  \/ \E p \in Procs : PatchMainFetch(p) /\ OneAtATime
  \/ \E p \in Procs : PatchMainCommit(p) /\ OneAtATime
  \/ \E p \in Procs : PatchMainCacheDel(p) /\ OneAtATime
  \/ \E p \in Procs : Return(p) /\ OneAtATime
  \/ \E p \in Procs : RedirectCacheGetFail(p) /\ OneAtATime
  \/ \E p \in Procs : RedirectCacheSetFail(p) /\ OneAtATime
  \/ \E p \in Procs : PatchMainCacheDelFail(p) /\ OneAtATime
  \/ \E p \in Procs : CreateSeedFail(p) /\ OneAtATime
  \/ \E p \in Procs : RedirectIncFetchFail(p) /\ OneAtATime
  \/ \E p \in Procs : RedirectIncrementFail(p) /\ OneAtATime
  \/ \E p \in Procs : PatchMainCommitFail(p) /\ OneAtATime
  \/ CacheExpire /\ OneAtATime

SpecFaults == Init /\ [][NextFaults]_vars

\* The steps that carry the request in slot p on to its answer, once it has
\* started: each step of its handler, as it succeeds or as it fails.
ContinueLive(p) ==
  \/ CreateCommit(p) \/ CreateCommitFail(p)
  \/ CreateSeed(p) \/ CreateSeedFail(p)
  \/ RedirectDbLookup(p) \/ RedirectDbLookupFail(p)
  \/ RedirectCacheSet(p) \/ RedirectCacheSetFail(p)
  \/ RedirectIncFetch(p) \/ RedirectIncFetchFail(p)
  \/ RedirectIncrement(p) \/ RedirectIncrementFail(p)
  \/ PatchMainCommit(p) \/ PatchMainCommitFail(p)
  \/ PatchMainCacheDel(p) \/ PatchMainCacheDelFail(p)

\* The handlers of main.py on the first link, any interleaving, with every
\* cache and store failure; a request that has started is carried on.
NextLive ==
  \/ \E p \in Procs : CreateFlush(p) /\ OneLink
  \/ \E p \in Procs : CreateCommit(p) /\ OneLink
  \/ \E p \in Procs : CreateSeed(p) /\ OneLink
  \/ \E p \in Procs : ShortenEndpoint(p) /\ OneLink
  \/ \E p \in Procs : RedirectCacheGet(p) /\ OneLink
  \/ \E p \in Procs : RedirectDbLookup(p) /\ OneLink
  \/ \E p \in Procs : RedirectCacheSet(p) /\ OneLink
  \/ \E p \in Procs : RedirectIncFetch(p) /\ OneLink
  \/ \E p \in Procs : RedirectIncrement(p) /\ OneLink
  \/ \E p \in Procs : PatchMainFetch(p) /\ OneLink
  \/ \E p \in Procs : PatchMainCommit(p) /\ OneLink
  \/ \E p \in Procs : PatchMainCacheDel(p) /\ OneLink
  \/ \E p \in Procs : Return(p) /\ OneLink
  \/ \E p \in Procs : CreateFlushFail(p) /\ OneLink
  \/ \E p \in Procs : CreateCommitFail(p) /\ OneLink
  \/ \E p \in Procs : CreateSeedFail(p) /\ OneLink
  \/ \E p \in Procs : RedirectCacheGetFail(p) /\ OneLink
  \/ \E p \in Procs : RedirectDbLookupFail(p) /\ OneLink
  \/ \E p \in Procs : RedirectCacheSetFail(p) /\ OneLink
  \/ \E p \in Procs : RedirectIncFetchFail(p) /\ OneLink
  \/ \E p \in Procs : RedirectIncrementFail(p) /\ OneLink
  \/ \E p \in Procs : PatchMainFetchFail(p) /\ OneLink
  \/ \E p \in Procs : PatchMainCommitFail(p) /\ OneLink
  \/ \E p \in Procs : PatchMainCacheDelFail(p) /\ OneLink
  \/ CacheExpire /\ OneLink

SpecLive ==
  Init /\ [][NextLive]_vars /\ \A p \in Procs : WF_vars(ContinueLive(p))

\* The handlers of main.py, one request at a time, with failures of the two
\* store lookups of the resolve.
NextLookup ==
  \/ \E p \in Procs : CreateFlush(p) /\ OneAtATime
  \/ \E p \in Procs : CreateCommit(p) /\ OneAtATime
  \/ \E p \in Procs : CreateSeed(p) /\ OneAtATime
  \/ \E p \in Procs : RedirectCacheGet(p) /\ OneAtATime
  \/ \E p \in Procs : RedirectDbLookup(p) /\ OneAtATime
  \/ \E p \in Procs : RedirectCacheSet(p) /\ OneAtATime
  \/ \E p \in Procs : RedirectIncFetch(p) /\ OneAtATime
  \/ \E p \in Procs : RedirectIncrement(p) /\ OneAtATime
  \/ \E p \in Procs : PatchMainFetch(p) /\ OneAtATime
  \/ \E p \in Procs : PatchMainCommit(p) /\ OneAtATime
  \/ \E p \in Procs : PatchMainCacheDel(p) /\ OneAtATime
  \/ \E p \in Procs : Return(p) /\ OneAtATime
  \/ \E p \in Procs : RedirectDbLookupFail(p) /\ OneAtATime
  \/ \E p \in Procs : RedirectIncFetchFail(p) /\ OneAtATime
  \/ CacheExpire /\ OneAtATime

SpecLookup == Init /\ [][NextLookup]_vars

\* The handlers of main.py on the first link, one request at a time, with a
\* foreign client that writes cache values between two requests.  A request
\* is short beside the TTL: entries expire between requests, not within one.
NextCache ==
  \/ \E p \in Procs : CreateFlush(p) /\ OneAtATime /\ OneLink
  \/ \E p \in Procs : CreateCommit(p) /\ OneAtATime /\ OneLink
  \/ \E p \in Procs : CreateSeed(p) /\ OneAtATime /\ OneLink
  \/ \E p \in Procs : RedirectCacheGet(p) /\ OneAtATime /\ OneLink
  \/ \E p \in Procs : RedirectCacheDrop(p) /\ OneAtATime /\ OneLink
  \/ \E p \in Procs : RedirectDbLookup(p) /\ OneAtATime /\ OneLink
  \/ \E p \in Procs : RedirectCacheSet(p) /\ OneAtATime /\ OneLink
  \/ \E p \in Procs : RedirectIncFetch(p) /\ OneAtATime /\ OneLink
  \/ \E p \in Procs : RedirectIncrement(p) /\ OneAtATime /\ OneLink
  \/ \E p \in Procs : PatchMainFetch(p) /\ OneAtATime /\ OneLink
  \/ \E p \in Procs : PatchMainCommit(p) /\ OneAtATime /\ OneLink
  \/ \E p \in Procs : PatchMainCacheDel(p) /\ OneAtATime /\ OneLink
  \/ \E p \in Procs : Return(p) /\ OneAtATime /\ OneLink
  \/ CachePut /\ AllIdle /\ FirstKeyOnly
  \/ CacheExpire /\ AllIdle

SpecCache == Init /\ [][NextCache]_vars

\* No status update asks for Active: a row that is Inactive stays so.
OnlyDeactivate == \A q \in Procs : slot'[q].arg \in {"", INACTIVE}

\* The steps that carry the request in slot p on, once it has started.
ContinueTtl(p) ==
  \/ CreateCommit(p) \/ CreateSeed(p)
  \/ RedirectDbLookup(p) \/ RedirectCacheSet(p)
  \/ RedirectIncFetch(p) \/ RedirectIncrement(p)
  \/ PatchMainCommit(p) \/ PatchMainCacheDel(p)
  \/ PatchRouteCommit(p)
  \/ Return(p)

\* Create, resolve and deactivation (by main.py and by routes_links.py) on
\* the first link, in any interleaving, while the TTLs run down.  Time goes
\* on and every request that has started is carried to its end.
NextTtl ==
  \/ \E p \in Procs : CreateFlush(p) /\ OneLink /\ CreateAlone
  \/ \E p \in Procs : CreateCommit(p) /\ OneLink /\ CreateAlone
  \/ \E p \in Procs : CreateSeed(p) /\ OneLink /\ CreateAlone
  \/ \E p \in Procs : RedirectCacheGet(p) /\ OneLink /\ CreateAlone
  \/ \E p \in Procs : RedirectDbLookup(p) /\ OneLink /\ CreateAlone
  \/ \E p \in Procs : RedirectCacheSet(p) /\ OneLink /\ CreateAlone
  \/ \E p \in Procs : RedirectIncFetch(p) /\ OneLink /\ CreateAlone
  \/ \E p \in Procs : RedirectIncrement(p) /\ OneLink /\ CreateAlone
  \/ \E p \in Procs : PatchMainFetch(p) /\ OneLink /\ CreateAlone /\ OnlyDeactivate
  \/ \E p \in Procs : PatchMainCommit(p) /\ OneLink /\ CreateAlone
  \/ \E p \in Procs : PatchMainCacheDel(p) /\ OneLink /\ CreateAlone
  \/ \E p \in Procs : PatchRouteFetch(p) /\ OneLink /\ CreateAlone /\ OnlyDeactivate
  \/ \E p \in Procs : PatchRouteCommit(p) /\ OneLink /\ CreateAlone
  \/ \E p \in Procs : Return(p) /\ OneLink /\ CreateAlone
  \/ Tick

SpecTtl ==
  /\ Init /\ [][NextTtl]_vars
  /\ WF_vars(Tick)
  /\ \A p \in Procs : WF_vars(ContinueTtl(p))

\* encode_base62 on every pair of arguments of Nums, the rest at rest.
InitEncode ==
  /\ store = {}
  /\ nextId = 1
  /\ cache = {}
  /\ slot = [p \in Procs |-> IdleSlot]
  /\ pre = None
  /\ incs = [i \in Ids |-> 0]
  /\ scen = 0
  /\ \E n1 \in Nums, n2 \in Nums : calls = TwoCalls(n1, n2)

NextEncode == \E k \in {1, 2} : Encode(k)

SpecEncode == InitEncode /\ [][NextEncode]_vars

\* ================================================================= claims
\* The request in slot p, of kind op, has answered and ran with no other
\* request in flight from its start on.
AnsweredAlone(p, op) == slot[p].op = op /\ slot[p].pc = "done" /\ pre # None

NoEntryIn(entries, short_code) ==
  \A e \in entries : e.key # build_cache_key(short_code)

\* C1: a resolve that starts after a deactivation of its code has returned,
\* with no reactivation committed since, answers with the inactive page and
\* never with the target URL.
C1_InactiveAfterDeactivation ==
  \A p \in Procs :
    (slot[p].op = "redirect" /\ slot[p].pc = "done" /\ slot[p].afterDeact)
      => slot[p].resp =
           Some(Response(302, inactive_redirect_url(slot[p].short_code), None))

\* C2: once no resolve is in flight, a row's visit_count is the number of
\* increments that committed on it: none is lost and none is counted twice.
C2_NoLostVisits ==
  Resolving = {} => \A r \in store : r.visit_count = incs[r.id]

\* C3: a resolve that runs alone on a row that is Active answers 307 with the
\* row's original_url and leaves the store with that row's visit_count
\* raised by exactly 1, on the cache-hit and on the cache-miss path.
C3_ActiveResolveCounts ==
  \A p \in Procs :
    AnsweredAlone(p, "redirect") =>
      \A r \in RowsOf(The(pre).store, slot[p].short_code) :
        r.status = ACTIVE =>
          /\ slot[p].resp = Some(Response(307, <<r.original_url>>, None))
          /\ store = (The(pre).store \ {r})
                       \cup {[r EXCEPT !.visit_count = r.visit_count + 1]}

\* A resolve that ran alone on the cache-miss path, on an Active row that had
\* been visited before, has answered.
C3_Witness ==
  \E p \in Procs :
    /\ AnsweredAlone(p, "redirect")
    /\ NoEntryIn(The(pre).cache, slot[p].short_code)
    /\ \E r \in RowsOf(The(pre).store, slot[p].short_code) :
         r.status = ACTIVE /\ r.visit_count >= 1
    /\ \E a \in slot[p].resp : a.status_code = 307

\* C4: a status update by a requester who is not the row's owner, asking
\* for the status the row does not have, answers 404, as for a code without
\* a row, and changes neither the store nor the cache.
C4_NonOwnerIsNotFound ==
  \A p \in Procs :
    (slot[p].op \in {"patch_main", "patch_route"} /\ slot[p].pc = "done" /\ pre # None)
      => \A r \in RowsOf(The(pre).store, slot[p].short_code) :
           (r.owner_id # slot[p].user /\ r.status # slot[p].arg) =>
             /\ \A a \in slot[p].resp : a.status_code = 404
             /\ store = The(pre).store
             /\ cache \subseteq The(pre).cache

\* C5: every row a reader can observe (a committed row, a row a handler
\* other than the running create has loaded, a row in a response) has
\* short_code = encode_base62(id): never NULL, also while a create is in
\* progress or after it failed.
HasOwnCode(r) == r.short_code = Some(encode_base62(r.id).val)

C5_ShortCodeIsEncodedId ==
  /\ \A r \in store : HasOwnCode(r)
  /\ \A p \in Procs :
       /\ slot[p].op # "shorten" => \A r \in slot[p].db_url : HasOwnCode(r)
       /\ \A a \in slot[p].resp : \A r \in a.body : HasOwnCode(r)

\* One create has failed after its id was drawn while another holds its
\* inserted row, still without short code, in an open transaction.
C5_Witness ==
  \E p, q \in Procs :
    /\ slot[p].op = "shorten" /\ slot[p].pc = "commit"
    /\ \E r \in slot[p].db_url : r.short_code = None
    /\ slot[q].op = "shorten" /\ slot[q].pc = "done"
    /\ \E a \in slot[q].resp : a.status_code = 500
    /\ nextId = 3

\* C6: no two committed rows share an id or a short code, and no two 201
\* responses carry the same id or short code.
C6_DistinctIdsAndCodes ==
  /\ \A r1, r2 \in store :
       r1 # r2 => r1.id # r2.id /\ r1.short_code # r2.short_code
  /\ \A p, q \in Procs :
       p # q =>
         \A a \in slot[p].resp, b \in slot[q].resp :
           \A r1 \in a.body, r2 \in b.body :
             (a.status_code = 201 /\ b.status_code = 201)
               => r1.id # r2.id /\ r1.short_code # r2.short_code

\* Two creates of the same URL have both committed, neither has answered.
C6_Witness ==
  \E p, q \in Procs :
    /\ p # q
    /\ slot[p].op = "shorten" /\ slot[p].pc = "seed"
    /\ slot[q].op = "shorten" /\ slot[q].pc = "seed"
    /\ \E r1 \in slot[p].db_url, r2 \in slot[q].db_url :
         r1.original_url = r2.original_url
    /\ Cardinality(store) = 2

\* C7: a resolve that runs alone on a code with no row and no cache entry
\* answers 404, changes no row and writes no cache entry.
C7_UnknownCodeNotFound ==
  \A p \in Procs :
    ( /\ AnsweredAlone(p, "redirect")
      /\ RowsOf(The(pre).store, slot[p].short_code) = {}
      /\ NoEntryIn(The(pre).cache, slot[p].short_code) )
      => /\ slot[p].resp = Some(Response(404, <<"Short URL not found">>, None))
         /\ store = The(pre).store
         /\ cache \subseteq The(pre).cache

\* Such a resolve has answered while another link, with its cache entry,
\* exists.
C7_Witness ==
  \E p \in Procs :
    /\ AnsweredAlone(p, "redirect")
    /\ RowsOf(The(pre).store, slot[p].short_code) = {}
    /\ NoEntryIn(The(pre).cache, slot[p].short_code)
    /\ The(pre).store # {} /\ The(pre).cache # {}
    /\ \E a \in slot[p].resp : a.status_code = 404

\* C8: a resolve that runs alone on a row that is Inactive answers with the
\* inactive page and leaves the store, visit_count included, unchanged.
C8_InactiveRowResolvesInactive ==
  \A p \in Procs :
    AnsweredAlone(p, "redirect") =>
      \A r \in RowsOf(The(pre).store, slot[p].short_code) :
        r.status = INACTIVE =>
          /\ slot[p].resp =
               Some(Response(302, inactive_redirect_url(slot[p].short_code), None))
          /\ store = The(pre).store

\* C9: a cache entry whose status differs from its row's status exists only
\* while a status update of that code is between its commit and its cache
\* delete.
C9_StaleOnlyUntilCacheDelete ==
  \A e \in cache, r \in store :
    ( /\ r.short_code # None
      /\ e.key = build_cache_key(The(r.short_code))
      /\ e.status # r.status )
      => \E q \in Procs :
           /\ slot[q].op = "patch_main"
           /\ slot[q].short_code = The(r.short_code)
           /\ slot[q].pc = "cache_del"

TargetOf(s) == IF s.op = "soft_delete" THEN INACTIVE ELSE s.arg
MayChange(s, r) == s.op = "patch_main" \/ r.owner_id = s.user
StatusOps == {"patch_main", "patch_route", "soft_delete"}
Succeeded(s) == \E a \in s.resp : a.status_code \in {200, 204}

C12_StatusChangeInvalidates ==
  \A p \in Procs :
    (slot[p].op \in StatusOps /\ slot[p].pc = "done" /\ pre # None /\ Succeeded(slot[p]))
      => \A r \in RowsOf(The(pre).store, slot[p].short_code) :
           r.status # TargetOf(slot[p]) => NoEntryIn(cache, slot[p].short_code)

\* C13: no step removes a row from the store: every committed row is still
\* there, under its id and short code, after the step.
C13_NoPhysicalRemoval ==
  [][\A r \in store :
       \E r2 \in store' : r2.id = r.id /\ r2.short_code = r.short_code]_vars

\* The rows a delete request names: by id (app/routes_links.py) or by short
\* code (routes_links.py).
DeleteOps == {"soft_delete", "delete_link"}
TargetRows(s, rows) ==
  IF s.op = "delete_link" THEN {r \in rows : r.id = s.link_id}
  ELSE RowsOf(rows, s.short_code)

\* C14: a delete that runs alone, by the owner, of a link this owner has
\* already deleted with success (its row is Inactive after the soft delete,
\* or gone after the physical delete) answers 404.
C14_SecondDeleteNotFound ==
  \A p \in Procs :
    (slot[p].op \in DeleteOps /\ slot[p].pc = "done" /\ pre # None) =>
      /\ \A r \in TargetRows(slot[p], The(pre).store) :
           (r.owner_id = slot[p].user /\ r.status = INACTIVE) =>
             \A a \in slot[p].resp : a.status_code = 404
      /\ TargetRows(slot[p], The(pre).store) = {} =>
           \A a \in slot[p].resp : a.status_code = 404

\* C15: a delete that runs alone by a user who is not the row's owner
\* answers 404 and changes neither the store nor the cache; a delete by the
\* owner of a row that is present answers 204.
C15_NonOwnerDeleteLeavesLink ==
  \A p \in Procs :
    (slot[p].op \in DeleteOps /\ slot[p].pc = "done" /\ pre # None) =>
      \A r \in TargetRows(slot[p], The(pre).store) :
        /\ r.owner_id # slot[p].user =>
             /\ \A a \in slot[p].resp : a.status_code = 404
             /\ store = The(pre).store
             /\ cache \subseteq The(pre).cache
        /\ (r.owner_id = slot[p].user /\ r.status = ACTIVE) =>
             slot[p].resp = Some(Response(204, <<>>, None))

\* A soft delete by another user than the owner has answered on an Active,
\* visited row.
C15_Witness ==
  \E p \in Procs :
    /\ slot[p].op = "soft_delete" /\ slot[p].pc = "done" /\ pre # None
    /\ \E r \in TargetRows(slot[p], The(pre).store) :
         r.owner_id # slot[p].user /\ r.status = ACTIVE /\ r.visit_count >= 1
    /\ \E a \in slot[p].resp : a.status_code = 404

\* C16: a row's visit_count starts at 0 and every step leaves it as it was
\* or raises it by exactly 1: it never decreases.
C16_VisitCountMonotone ==
  [][\A r2 \in store' :
       IF \E r \in store : r.id = r2.id
         THEN \A r \in store :
                r.id = r2.id => r2.visit_count \in {r.visit_count, r.visit_count + 1}
         ELSE r2.visit_count = 0]_vars

\* The requests that create a link: the endpoint of main.py as written, and
\* the create with an owner (crud.create_short_url and the seed).
CreateOps == {"shorten", "shorten_endpoint"}

\* C17: a create on a working store and cache, run alone, succeeds: the
\* step that answers it answers 201 with a record that is Active, has
\* visit_count 0 and a non-empty short_code, and at that moment the cache
\* holds an entry for that code with the record's original_url, status
\* Active and a TTL above 0 and at most DEFAULT_CACHE_TTL_SECONDS.
C17_CreateReturnsSeededRecord ==
  [][\A p \in Procs :
       (slot[p].pc # "done" /\ slot'[p].pc = "done"
          /\ slot'[p].op \in CreateOps /\ pre' # None) =>
         \E resp \in slot'[p].resp :
           /\ resp.status_code = 201
           /\ \E row \in resp.body :
                /\ row.status = ACTIVE
                /\ row.visit_count = 0
                /\ row.short_code # None
                /\ \A code \in row.short_code : Len(code) > 0
                /\ \E e \in cache' :
                     /\ e.key = build_cache_key(The(row.short_code))
                     /\ e.url = row.original_url
                     /\ e.status = ACTIVE
                     /\ e.ttl > 0
                     /\ e.ttl <= DEFAULT_CACHE_TTL_SECONDS]_vars

\* What a resolve of short_code answers and leaves in the store when it
\* works from the rows alone, no cache involved: 404 for no row, the
\* inactive page for an Inactive row, the URL and one more visit for an
\* Active row.
StoreOnlyResolve(rows, short_code) ==
  LET found == RowsOf(rows, short_code)
  IN IF found = {}
       THEN [resp |-> Response(404, <<"Short URL not found">>, None), store |-> rows]
     ELSE IF The(found).status = INACTIVE
       THEN [resp |-> Response(302, inactive_redirect_url(short_code), None),
             store |-> rows]
     ELSE [resp |-> Response(307, <<The(found).original_url>>, None),
           store |-> {IF r \in found THEN [r EXCEPT !.visit_count = @ + 1] ELSE r
                        : r \in rows}]

\* The rows after the row of short_code got the status new_status.
WithStatus(rows, short_code, new_status) ==
  {IF r.short_code = Some(short_code) THEN [r EXCEPT !.status = new_status] ELSE r
     : r \in rows}

\* The request in slot p ran alone, met a cache failure and no store failure,
\* and has answered.
AnsweredDespiteCache(p) ==
  slot[p].pc = "done" /\ pre # None /\ slot[p].cache_err /\ ~slot[p].store_err

\* C18: a request that met a failing cache command has the outcome of the
\* store alone.  A resolve whose cache get or set failed answers, and leaves
\* the store, as the store-only resolve does; a status update whose cache
\* delete failed answers 200 with the new status committed; a create whose
\* cache set failed answers 201 with its row committed.
C18_CacheFailureKeepsOutcome ==
  \A p \in Procs :
    AnsweredDespiteCache(p) =>
      LET s == slot[p]
          before == The(pre).store
      IN /\ s.op = "redirect" =>
              /\ s.resp = Some(StoreOnlyResolve(before, s.short_code).resp)
              /\ store = StoreOnlyResolve(before, s.short_code).store
         /\ s.op = "patch_main" =>
              /\ \E resp \in s.resp :
                   /\ resp.status_code = 200
                   /\ \E row \in resp.body : row.status = s.arg /\ row \in store
              /\ store = WithStatus(before, s.short_code, s.arg)
         /\ s.op = "shorten" =>
              \E resp \in s.resp :
                /\ resp.status_code = 201
                /\ \E row \in resp.body : store = before \cup {row}

\* A resolve ran alone on an Active link whose cache entry was there; its
\* cache get failed, and it has answered with the URL.
C18_Witness ==
  \E p \in Procs :
    /\ AnsweredDespiteCache(p)
    /\ slot[p].op = "redirect"
    /\ ~NoEntryIn(The(pre).cache, slot[p].short_code)
    /\ \E resp \in slot[p].resp : resp.status_code = 307

\* The rows after one more visit of short_code was counted.
WithVisit(rows, short_code) ==
  {IF r.short_code = Some(short_code) THEN [r EXCEPT !.visit_count = @ + 1] ELSE r
     : r \in rows}

\* The resolve in slot p ran alone, met a store failure in its increment
\* part (the fetch for the increment, or increment_visit_count) and has
\* answered.
AnsweredDespiteStore(p) ==
  slot[p].op = "redirect" /\ slot[p].pc = "done" /\ pre # None /\ slot[p].store_err

\* C19 as stated: when the store fails during the visit increment of a
\* resolve, the resolve answers with the target URL and every row, its
\* visit_count included, is as it was before the resolve.
C19_IncrementFailureLeavesCount ==
  \A p \in Procs :
    AnsweredDespiteStore(p) =>
      /\ \E resp \in slot[p].resp : resp.status_code = 307
      /\ store = The(pre).store

\* C19, amended: when the store fails during the visit increment of a
\* resolve, the resolve answers 307 with the target URL (the failure is not
\* surfaced) and the visit_count is its previous value or that value plus
\* one; nothing else in the store changes, and the count never moves by two.
C19_IncrementFailureAtMostOnce ==
  \A p \in Procs :
    AnsweredDespiteStore(p) =>
      LET before == The(pre).store
          found == RowsOf(before, slot[p].short_code)
      IN /\ found # {}
         /\ slot[p].resp = Some(Response(307, <<The(found).original_url>>, None))
         /\ store \in {before, WithVisit(before, slot[p].short_code)}

\* A resolve ran alone, its increment failed after the commit: it answered
\* 307 and the visit is counted.
C19_Witness ==
  \E p \in Procs :
    /\ AnsweredDespiteStore(p)
    /\ \E resp \in slot[p].resp : resp.status_code = 307
    /\ store # The(pre).store
    /\ store = WithVisit(The(pre).store, slot[p].short_code)

\* The create in slot p ran alone, its cache seed failed, and it has
\* answered.
AnsweredUnseeded(p) ==
  slot[p].op = "shorten" /\ slot[p].pc = "done" /\ pre # None /\ slot[p].cache_err

Returned(k) == calls.encoded[k] # None /\ ~The(calls.encoded[k]).raises

\* C21: encode_base62 is injective on the non-negative numbers up to MaxNum:
\* two calls on different numbers that both returned gave different strings.
C21_EncodeInjective ==
  (Returned(1) /\ Returned(2) /\ calls.num[1] # calls.num[2]) =>
    The(calls.encoded[1]).val # The(calls.encoded[2]).val

\* Both calls returned, one on a one-symbol number and one on the first
\* two-symbol number whose last symbol is the zero symbol.
C21_Witness ==
  /\ Returned(1) /\ Returned(2)
  /\ calls.num[1] = 1 /\ calls.num[2] = BASE
  /\ Len(The(calls.encoded[2]).val) = 2

\* C22: encode_base62(0) returns the one-symbol string of the zero symbol
\* "0", and encode_base62 of a negative number raises instead of returning a
\* string.
C22_EncodeZeroAndNegative ==
  \A k \in {1, 2} :
    calls.encoded[k] # None =>
      LET out == The(calls.encoded[k])
      IN /\ calls.num[k] = 0 => ~out.raises /\ out.val = <<"0">>
         /\ calls.num[k] < 0 => out.raises /\ out.val = <<>>
         /\ calls.num[k] > 0 => ~out.raises /\ Len(out.val) > 0

\* The call on 0 returned "0" and the call on a negative number raised.
C22_Witness ==
  /\ calls.num[1] = 0 /\ calls.num[2] < 0
  /\ Returned(1) /\ The(calls.encoded[1]).val = <<BASE62_CHARS[1]>>
  /\ calls.encoded[2] # None /\ The(calls.encoded[2]).raises

\* What a resolve of short_code reads from the cache `entries`: "miss" when
\* there is no value under the key.
CachedAs(entries, short_code) ==
  LET found == {e \in entries : e.key = build_cache_key(short_code)}
  IN IF found = {} THEN "miss" ELSE DecodeCached(The(found))

\* C23: a resolve that finds a well-formed Inactive entry for its code
\* answers with the inactive page in its first step, the cache read: no step
\* reads the store, and the store and the visit counts are as they were,
\* whether or not the store has a row for the code.
C23_InactiveHitAnswersAtOnce ==
  [][\A p \in Procs :
       (slot[p].op = "idle" /\ slot'[p].op = "redirect"
          /\ CachedAs(cache, slot'[p].short_code) = "inactive") =>
         /\ slot'[p].pc = "done"
         /\ slot'[p].resp =
              Some(Response(302, inactive_redirect_url(slot'[p].short_code), None))
         /\ store' = store /\ incs' = incs /\ cache' = cache]_vars

\* A resolve ran alone on a code that has an Inactive entry in the cache and
\* no row in the store, and has answered with the inactive page.
C23_Witness ==
  \E p \in Procs :
    /\ AnsweredAlone(p, "redirect")
    /\ CachedAs(The(pre).cache, slot[p].short_code) = "inactive"
    /\ RowsOf(The(pre).store, slot[p].short_code) = {}
    /\ \E resp \in slot[p].resp : resp.status_code = 302

\* C24: a resolve that ran alone and answered with a target URL has raised
\* the visit_count of the row with its short code by exactly 1, whether the
\* URL came from the cache or from the store.
C24_ReturnedUrlIsCounted ==
  \A p \in Procs :
    (AnsweredAlone(p, "redirect")
       /\ \E resp \in slot[p].resp : resp.status_code = 307) =>
      /\ RowsOf(The(pre).store, slot[p].short_code) # {}
      /\ store = WithVisit(The(pre).store, slot[p].short_code)

\* C25: a resolve that ran alone, missed the cache and found the row
\* Inactive in the store has, at the step that answers with the inactive
\* page, a well-formed Inactive entry for the code in the cache.
C25_InactiveMissIsCached ==
  [][\A p \in Procs :
       (slot[p].op = "redirect" /\ slot[p].pc # "done" /\ slot'[p].pc = "done"
          /\ pre' # None
          /\ CachedAs(The(pre').cache, slot[p].short_code) = "miss"
          /\ \E r \in RowsOf(The(pre').store, slot[p].short_code) :
               r.status = INACTIVE) =>
         /\ slot'[p].resp =
              Some(Response(302, inactive_redirect_url(slot[p].short_code), None))
         /\ CachedAs(cache', slot[p].short_code) = "inactive"]_vars

\* The shapes of a cache value that count as malformed: it does not decode,
\* or its target URL or its status token is missing, or the token is unknown.
Malformed == {"corrupt", "crash", "invalid"}

\* C26: a resolve that ran alone and found a malformed value under its key
\* answers as the store alone dictates, and at the step that answers the
\* malformed value is no longer in the cache: the key is either absent or
\* holds a well-formed entry.
C26_MalformedEntryIsDropped ==
  [][\A p \in Procs :
       (slot[p].pc # "done" /\ slot'[p].pc = "done" /\ slot'[p].op = "redirect"
          /\ pre' # None
          /\ CachedAs(The(pre').cache, slot'[p].short_code) \in Malformed) =>
         /\ slot'[p].resp =
              Some(StoreOnlyResolve(The(pre').store, slot'[p].short_code).resp)
         /\ store' = StoreOnlyResolve(The(pre').store, slot'[p].short_code).store
         /\ CachedAs(cache', slot'[p].short_code) \notin Malformed]_vars

\* C27: a resolve that ran alone, missed the cache and found the row Active
\* in the store has, at the step that answers, an entry for its code in the
\* cache with the row's original_url, status Active and the TTL
\* DEFAULT_CACHE_TTL_SECONDS.
C27_ActiveMissIsCached ==
  [][\A p \in Procs :
       (slot[p].op = "redirect" /\ slot[p].pc # "done" /\ slot'[p].pc = "done"
          /\ pre' # None
          /\ CachedAs(The(pre').cache, slot[p].short_code) = "miss") =>
         \A r \in RowsOf(The(pre').store, slot[p].short_code) :
           r.status = ACTIVE =>
             CacheGet(build_cache_key(slot[p].short_code))' =
               Some(CacheValue(build_cache_key(slot[p].short_code), "object",
                               r.original_url, ACTIVE))]_vars

\* A resolve ran alone on an Active row with nothing in the cache, and has
\* answered with the URL while the cache holds the entry.
C27_Witness ==
  \E p \in Procs :
    /\ AnsweredAlone(p, "redirect")
    /\ CachedAs(The(pre).cache, slot[p].short_code) = "miss"
    /\ \E r \in RowsOf(The(pre).store, slot[p].short_code) : r.status = ACTIVE
    /\ \E resp \in slot[p].resp : resp.status_code = 307
    /\ CachedAs(cache, slot[p].short_code) = "active"

\* The first link's row is Inactive in the store.
RowInactive == \E r \in RowsOf(store, FirstCode) : r.status = INACTIVE

\* Nothing is left that could make a resolve of the first link answer with
\* its URL: the row is Inactive, the cache has no Active entry for the code,
\* and no resolve in flight holds a URL it read before.
Settled ==
  /\ RowInactive
  /\ CachedAs(cache, FirstCode) # "active"
  /\ \A q \in Procs :
       (slot[q].op = "redirect" /\ slot[q].pc # "done") => slot[q].original_url = None

\* A resolve step that is not the cache.set after a DB hit leaves every entry
\* with the time to live it had: reading an entry does not renew it.
HitKeepsTtl ==
  \A p \in Procs :
    (slot'[p].op = "redirect" /\ slot'[p] # slot[p] /\ slot[p].pc # "cache_set") =>
      \A e2 \in cache' : \E e \in cache : e.key = e2.key /\ e2.ttl <= e.ttl

\* A resolve that is answered in a settled state is answered with the
\* inactive page.
SettledAnswersInactive ==
  \A p \in Procs :
    (Settled /\ slot[p].op = "redirect" /\ slot[p].pc # "done" /\ slot'[p].pc = "done") =>
      slot'[p].resp = Some(Response(302, inactive_redirect_url(FirstCode), None))

\* C28: while time passes and no status update asks for Active, a committed
\* deactivation leads to a state, kept for ever after, from which every
\* resolve of the code answers with the inactive page; and a resolve that
\* reads an entry never renews its time to live.
C28_StalenessEndsWithTtl ==
  /\ [](RowInactive => <>[]Settled)
  /\ [][SettledAnswersInactive]_vars
  /\ [][HitKeepsTtl]_vars

\* The row is Inactive, no request is in flight, and the cache still holds
\* the Active entry, part of its time to live gone.
C28_Witness ==
  /\ RowInactive
  /\ AllIdle
  /\ \E e \in cache :
       /\ e.key = build_cache_key(FirstCode)
       /\ DecodeCached(e) = "active"
       /\ e.ttl < DEFAULT_CACHE_TTL_SECONDS

\* C29: the step at which a create fails answers with a server error,
\* leaves the store and the cache as they were, and leaves no row of the
\* failed create (none with its id, none without a short code) in the store.
C29_FailedCreateLeavesNothing ==
  [][\A p \in Procs :
       (slot'[p].op = "shorten" /\ slot[p].pc # "done" /\ slot'[p].pc = "done"
          /\ \E resp \in slot'[p].resp : resp.status_code # 201) =>
         /\ \E resp \in slot'[p].resp : resp.status_code = 500 /\ resp.body = None
         /\ store' = store
         /\ cache' = cache
         /\ \A r \in slot[p].db_url : \A r2 \in store' : r2.id # r.id
         /\ \A r2 \in store' : r2.short_code # None]_vars

\* A create that ran alone beside an existing link failed at its commit: its
\* id is spent, and the store and the cache are as before.
C29_Witness ==
  \E p \in Procs :
    /\ AnsweredAlone(p, "shorten")
    /\ \E resp \in slot[p].resp : resp.status_code = 500
    /\ store # {} /\ store = The(pre).store /\ cache = The(pre).cache
    /\ nextId > Cardinality(store) + 1

\* C30: a status update that ran alone and met a store failure while writing
\* the status answers with a server error, and every row, its status
\* included, is as it was before the request.
C30_FailedStatusWriteLeavesStatus ==
  \A p \in Procs :
    (AnsweredAlone(p, "patch_main") /\ slot[p].store_err) =>
      /\ \E resp \in slot[p].resp : resp.status_code = 500
      /\ store = The(pre).store

\* C31: in every step, a row that already has its short code keeps its id,
\* short code, original URL and owner; a step that changes its status is the
\* commit of a status update or soft delete and leaves its visit count, and
\* a step that changes its visit count is the increment of a resolve and
\* leaves its status.
C31_OnlyAllowedFieldsChange ==
  [][\A r \in store : \A r2 \in store' :
       (r.short_code # None /\ r2.id = r.id) =>
         /\ r2.short_code = r.short_code
         /\ r2.original_url = r.original_url
         /\ r2.owner_id = r.owner_id
         /\ r2.status # r.status =>
              /\ r2.visit_count = r.visit_count
              /\ \E p \in Procs : /\ slot[p].op \in StatusOps
                                  /\ slot[p].pc = "commit"
                                  /\ slot'[p].pc # "commit"
         /\ r2.visit_count # r.visit_count =>
              /\ r2.status = r.status
              /\ \E p \in Procs : /\ slot[p].op = "redirect"
                                  /\ slot[p].pc = "inc"
                                  /\ slot'[p].pc = "done"]_vars

\* One request resolved a link and was redirected, another made the link
\* Inactive: the row is Inactive and has its visit counted.
C31_Witness ==
  \E p, q \in Procs : \E r \in store :
    /\ slot[p].op = "redirect" /\ slot[p].pc = "done"
    /\ \E resp \in slot[p].resp : resp.status_code = 307
    /\ slot[q].op \in StatusOps /\ slot[q].pc = "done" /\ Succeeded(slot[q])
    /\ r.short_code = Some(slot[p].short_code)
    /\ r.short_code = Some(slot[q].short_code)
    /\ r.status = INACTIVE /\ r.visit_count >= 1

\* The row a short code names, where there is one, has this original URL.
RecordHasUrl(rows, short_code, url) ==
  \E r \in rows : r.short_code = Some(short_code) /\ r.original_url = url

\* Every entry the handlers wrote is under the key of a code whose row has
\* the entry's URL.
EntriesMatchRecords ==
  \A e \in cache : \A c \in Codes :
    (e.payload = "object" /\ e.key = build_cache_key(c)) =>
      RecordHasUrl(store, c, e.url)

\* The step that answers a resolve with a redirect to a target names the
\* original URL of the row with the requested code.
RedirectNamesRecordUrl ==
  \A p \in Procs :
    (slot[p].op = "redirect" /\ slot[p].pc # "done" /\ slot'[p].pc = "done") =>
      \A resp \in slot'[p].resp :
        resp.status_code = 307 =>
          \E u \in Urls : /\ resp.detail = <<u>>
                          /\ RecordHasUrl(store', slot[p].short_code, u)

OnlyIncStepCounts ==
  \A p \in Procs :
    (slot[p].op = "redirect" /\ store' # store) =>
      /\ slot[p].pc = "inc" /\ slot[p].original_url # None
      /\ slot'[p].pc = "done"
      /\ \E resp \in slot'[p].resp : resp.status_code = 307

\* An answered resolve does nothing more: it keeps its answer until it
\* returns.
OneOutcome ==
  \A p \in Procs :
    (slot[p].op = "redirect" /\ slot[p].pc = "done") =>
      \/ slot'[p] = slot[p]
      \/ slot'[p] = IdleSlot /\ store' = store /\ cache' = cache

\* A resolve that ran alone has one answer; against the store at its start
\* only the count of the row it named moved, by one, and only under a
\* redirect to the target.
CountedAtMostOnce ==
  \A p \in Procs :
    AnsweredAlone(p, "redirect") =>
      /\ Cardinality(slot[p].resp) = 1
      /\ \A r \in store : \A r0 \in The(pre).store :
           r.id = r0.id =>
             /\ r.visit_count \in {r0.visit_count, r0.visit_count + 1}
             /\ r.visit_count # r0.visit_count =>
                  /\ r.short_code = Some(slot[p].short_code)
                  /\ \E resp \in slot[p].resp : resp.status_code = 307

\* C33: a resolve produces one outcome and attempts at most one increment;
\* the increment comes after the request has settled on the redirect to an
\* Active target, after the cache and store checks, and never in a request
\* that answers not found or inactive.
C33_OneOutcomeOneIncrement ==
  /\ []CountedAtMostOnce
  /\ [][OnlyIncStepCounts]_vars
  /\ [][OneOutcome]_vars

\* A resolve that ran alone was redirected to its target and the row's count
\* is one above its value at the start of the request.
C33_Witness ==
  \E p \in Procs :
    /\ AnsweredAlone(p, "redirect")
    /\ \E resp \in slot[p].resp : resp.status_code = 307
    /\ \E r \in store : \E r0 \in The(pre).store :
         /\ r.id = r0.id /\ r.short_code = Some(slot[p].short_code)
         /\ r.visit_count = r0.visit_count + 1

\* The symbols of BASE62_CHARS, and the digit a symbol stands for: its
\* position in BASE62_CHARS, counted from 0.
Alphabet == {BASE62_CHARS[i] : i \in 1..BASE}
DigitOf(ch) == (CHOOSE i \in 1..BASE : BASE62_CHARS[i] = ch) - 1

\* The base-62 value of a string, most significant symbol first.
RECURSIVE PositionalValue(_)
PositionalValue(str) ==
  IF str = <<>> THEN 0
  ELSE PositionalValue(SubSeq(str, 1, Len(str) - 1)) * BASE + DigitOf(str[Len(str)])

\* C34: for every number from 0 to MaxNum, encode_base62 returns a non-empty
\* string over the 62 distinct symbols 0-9, a-z, A-Z whose base-62 value,
\* most significant symbol first, is the number, and which starts with the
\* zero symbol only when the number is 0.
C34_EncodeIsBase62Numeral ==
  /\ BASE = 62 /\ Cardinality(Alphabet) = 62
  /\ \A k \in {1, 2} :
       (calls.encoded[k] # None /\ calls.num[k] >= 0) =>
         LET out == The(calls.encoded[k])
         IN /\ ~out.raises
            /\ Len(out.val) >= 1
            /\ \A i \in 1..Len(out.val) : out.val[i] \in Alphabet
            /\ PositionalValue(out.val) = calls.num[k]
            /\ out.val[1] = "0" => calls.num[k] = 0

\* Both calls returned: one on a two-symbol number whose two symbols differ
\* and whose last symbol is a letter, one on the largest number of the range.
C34_Witness ==
  /\ Returned(1) /\ Returned(2)
  /\ calls.num[1] = BASE + 10 /\ The(calls.encoded[1]).val = <<"1", "a">>
  /\ calls.num[2] = MaxNum /\ Len(The(calls.encoded[2]).val) = 2

\* C35: with one resolve and one status request on a link, in any
\* interleaving, no write undoes the other: the row's visit count is the
\* number of increments committed on it, and once the status request has
\* succeeded the row has the status that request asked for.
C35_IncrementAndStatusKeepBoth ==
  /\ \A r \in store : r.visit_count = incs[r.id]
  /\ \A q \in Procs :
       (slot[q].op \in StatusOps /\ slot[q].pc = "done" /\ Succeeded(slot[q])) =>
         \A r \in store :
           r.short_code = Some(slot[q].short_code) => r.status = TargetOf(slot[q])

\* A status update to Inactive is answered with the row as it was refreshed
\* at its commit; the resolve beside it, which had read the row as Active,
\* counted its visit after that commit: the row is Inactive and its count is
\* one above the count in the status update's answer.
C35_Witness ==
  \E p, q \in Procs : \E r \in store :
    /\ slot[p].op = "redirect" /\ slot[p].pc = "done"
    /\ \E resp \in slot[p].resp : resp.status_code = 307
    /\ slot[q].op = "patch_main" /\ slot[q].pc = "done" /\ slot[q].arg = INACTIVE
    /\ r.short_code = Some(slot[q].short_code)
    /\ r.short_code = Some(slot[p].short_code)
    /\ r.status = INACTIVE
    /\ \E resp \in slot[q].resp : \E b \in resp.body :
         resp.status_code = 200 /\ r.visit_count = b.visit_count + 1

\* C36: a resolve that runs alone and names the short code of a link that
\* was created and whose row a delete has since removed from the store
\* answers 404, whatever the cache holds for the code.
C36_DeletedLinkResolvesNotFound ==
  \A p \in Procs :
    ( /\ AnsweredAlone(p, "redirect")
      /\ \E i \in 1..(nextId - 1) : encode_base62(i).val = slot[p].short_code
      /\ RowsOf(The(pre).store, slot[p].short_code) = {} ) =>
      \A resp \in slot[p].resp : resp.status_code = 404

\* C37: a resolve that ran alone and met a failure of a store lookup: when
\* it had started on a cache entry it could serve as Active (the failure hit
\* the lookup for the increment) it answers with the redirect to the cached
\* URL; otherwise (the failure hit the lookup after the miss) it answers
\* with a 500 and no redirect.  In both cases no row has changed, so nothing
\* was counted, and no cache entry was written.
C37_LookupFailure ==
  \A p \in Procs :
    AnsweredDespiteStore(p) =>
      LET hit == {e \in The(pre).cache :
                    /\ e.key = build_cache_key(slot[p].short_code)
                    /\ DecodeCached(e) = "active"}
      IN /\ store = The(pre).store
         /\ cache \subseteq The(pre).cache
         /\ \A resp \in slot[p].resp :
              IF hit # {}
                THEN resp.status_code = 307 /\ \E e \in hit : resp.detail = <<e.url>>
                ELSE /\ resp.status_code = 500
                     /\ resp.detail \in {<<"Database table setup incomplete.">>,
                                         <<"Error retrieving redirect info.">>}
         /\ slot[p].resp # {}

\* A resolve of an Active link whose cache entry had expired met the failure
\* of the lookup and answered 500; the row is uncounted and nothing is cached.
C37_Witness ==
  \E p \in Procs : \E r \in store :
    /\ AnsweredDespiteStore(p)
    /\ r.short_code = Some(slot[p].short_code) /\ r.status = ACTIVE
    /\ r.visit_count = 0
    /\ NoEntryIn(cache, slot[p].short_code)
    /\ \E resp \in slot[p].resp : resp.status_code = 500

\* A request in slot p is under way: started and not yet answered.
UnderWay(p) == slot[p].pc \notin {"idle", "done"}

\* An answered request has exactly one response, an unanswered one none.
OneResponse ==
  \A p \in Procs :
    Cardinality(slot[p].resp) = IF slot[p].pc = "done" THEN 1 ELSE 0

\* A request under way can take its next step whatever the other slots hold.
NeverBlocked == \A p \in Procs : UnderWay(p) => ENABLED ContinueLive(p)

\* An answered request keeps its answer until it returns.
AnswerStays ==
  \A p \in Procs :
    slot[p].pc = "done" =>
      \/ slot'[p] = IdleSlot
      \/ /\ slot'[p].pc = "done" /\ slot'[p].op = slot[p].op
         /\ slot'[p].resp = slot[p].resp

\* C38: under fair scheduling every resolve, create and status update that
\* has started is answered, in every interleaving and under every cache and
\* store failure; an answered request has exactly one response, which it
\* keeps; and a request under way is never kept from its next step by
\* another request.
C38_EveryRequestCompletes ==
  /\ \A p \in Procs : UnderWay(p) ~> (slot[p].pc = "done")
  /\ []OneResponse
  /\ []NeverBlocked
  /\ [][AnswerStays]_vars

\* Two requests were answered side by side: a resolve that met a cache
\* failure and then a store failure, and a status update whose cache.delete
\* failed.
C38_Witness ==
  \E p, q \in Procs :
    /\ slot[p].op = "redirect" /\ slot[p].pc = "done"
    /\ slot[p].cache_err /\ slot[p].store_err
    /\ slot[q].op = "patch_main" /\ slot[q].pc = "done" /\ slot[q].cache_err
    /\ pre = None

====
